---- MODULE Spec2Model ----
(***************************************************************************)
(* Skylark conversational operations agent (src/app.py): the command       *)
(* interpreter (parse_intent), the multi-turn dialogue context             *)
(* (ConversationContext and the flow handlers of main), the repository     *)
(* mutators of OpsAgent, the conflict detector (check_conflicts) and the   *)
(* candidate ranker (recommend_replacement).                               *)
(*                                                                         *)
(* Text is modelled as a sequence of one-character strings, so that        *)
(* lower(), upper(), split(), "k in text" and startswith() are computed    *)
(* the way Python computes them.  A worksheet is its header (a fixed       *)
(* sequence of column names) and a sequence of rows; worksheet.find is     *)
(* gspread's: the first cell, row by row, whose value equals the query.    *)
(***************************************************************************)
EXTENDS Integers, Sequences, FiniteSets, TLC

(***************************************************************************)
(* Text: Python str operations used by the source.                         *)
(***************************************************************************)
UpperCase == <<"A","B","C","D","E","F","G","H","I","J","K","L","M","N","O","P","Q","R","S","T","U","V","W","X","Y","Z">>

LowerCase == <<"a","b","c","d","e","f","g","h","i","j","k","l","m","n","o","p","q","r","s","t","u","v","w","x","y","z">>

Digits == <<"0","1","2","3","4","5","6","7","8","9">>

Range(s) == {s[i] : i \in DOMAIN s}

IndexOf(s, x) == CHOOSE i \in DOMAIN s : s[i] = x

\* c.lower() and c.upper() of one character
lower_char(c) == IF c \in Range(UpperCase) THEN LowerCase[IndexOf(UpperCase, c)] ELSE c

upper_char(c) == IF c \in Range(LowerCase) THEN UpperCase[IndexOf(LowerCase, c)] ELSE c

\* str.lower(), str.upper()
lower(t) == [i \in 1..Len(t) |-> lower_char(t[i])]

upper(t) == [i \in 1..Len(t) |-> upper_char(t[i])]

\* c.isdigit()
isdigit(c) == c \in Range(Digits)

\* "k in t" for strings: k occurs in t as a contiguous substring
contains(t, k) == \E i \in 0..(Len(t) - Len(k)) : SubSeq(t, i + 1, i + Len(k)) = k

\* t.startswith(k)
startswith(t, k) == Len(k) <= Len(t) /\ SubSeq(t, 1, Len(k)) = k

\* t.replace(c, "") for a one-character c
RECURSIVE remove_char(_, _)
remove_char(t, c) ==
    IF t = <<>> THEN <<>>
    ELSE IF Head(t) = c THEN remove_char(Tail(t), c)
    ELSE <<Head(t)>> \o remove_char(Tail(t), c)

\* t.strip(): leading and trailing blanks removed
RECURSIVE lstrip(_)
lstrip(t) == IF t # <<>> /\ Head(t) = " " THEN lstrip(Tail(t)) ELSE t

RECURSIVE rstrip(_)
rstrip(t) == IF t # <<>> /\ t[Len(t)] = " " THEN rstrip(SubSeq(t, 1, Len(t) - 1)) ELSE t

strip(t) == rstrip(lstrip(t))

\* t.split(sep) for a one-character sep: every separator cuts, empty pieces kept
RECURSIVE split_on(_, _, _)
split_on(t, sep, cur) ==
    IF t = <<>> THEN <<cur>>
    ELSE IF Head(t) = sep THEN <<cur>> \o split_on(Tail(t), sep, <<>>)
    ELSE split_on(Tail(t), sep, Append(cur, Head(t)))

split_sep(t, sep) == split_on(t, sep, <<>>)

\* t.split(): cut on runs of blanks, no empty pieces
split(t) == SelectSeq(split_sep(t, " "), LAMBDA w : w # <<>>)

\* int(t): a non-empty run of digits read in base 10; -1 stands for ValueError
RECURSIVE int_digits(_, _)
int_digits(t, acc) ==
    IF t = <<>> THEN acc
    ELSE int_digits(Tail(t), 10 * acc + (IndexOf(Digits, Head(t)) - 1))

int(t) == IF t # <<>> /\ \A i \in DOMAIN t : isdigit(t[i]) THEN int_digits(t, 0) ELSE -1

\* str(n) for n >= 0
RECURSIVE str(_)
str(n) == IF n < 10 THEN <<Digits[n + 1]>> ELSE str(n \div 10) \o <<Digits[(n % 10) + 1]>>

\* t.zfill(w)
RECURSIVE zfill(_, _)
zfill(t, w) == IF Len(t) >= w THEN t ELSE zfill(<<"0">> \o t, w)

\* any(pred(x) for x in seq)
any_kw(t, kws) == \E i \in DOMAIN kws : contains(t, kws[i])

\* Python's None, kept apart from every text (a text holds one-character strings)
None == <<"None">>

(***************************************************************************)
(* String literals of the source.                                          *)
(***************************************************************************)
\* the word with a capital, which the lower-cased input never contains
s_pilot_capital == <<"P","i","l","o","t">>

s_pilot == <<"p","i","l","o","t">>

s_drone == <<"d","r","o","n","e">>

s_mission == <<"m","i","s","s","i","o","n">>

s_yes == <<"y","e","s">>

s_confirm == <<"c","o","n","f","i","r","m">>

s_Available == <<"A","v","a","i","l","a","b","l","e">>

s_Assigned == <<"A","s","s","i","g","n","e","d">>

s_Active == <<"A","c","t","i","v","e">>

s_Maintenance == <<"M","a","i","n","t","e","n","a","n","c","e">>

s_OnLeave == <<"O","n"," ","L","e","a","v","e">>

s_Completed == <<"C","o","m","p","l","e","t","e","d">>

s_P == <<"P">>

s_D == <<"D">>

s_PRJ == <<"P","R","J">>

s_P0 == <<"P","0">>

s_D0 == <<"D","0">>

s_P001 == <<"P","0","0","1">>

s_D001 == <<"D","0","0","1">>

s_PRJ001 == <<"P","R","J","0","0","1">>

\* the "no assignment" marker the create flows write (a dash)
s_dash == <<"-">>

\* keyword groups of parse_intent
kw_delete == <<<<"d","e","l","e","t","e">>, <<"r","e","m","o","v","e">>>>

kw_edit == <<<<"e","d","i","t">>, <<"m","o","d","i","f","y">>, <<"c","h","a","n","g","e"," ","f","i","e","l","d">>, <<"u","p","d","a","t","e"," ","f","i","e","l","d">>>>

kw_create == <<<<"a","d","d">>, <<"c","r","e","a","t","e">>, <<"n","e","w">>, <<"r","e","g","i","s","t","e","r">>>>

kw_show_non_working == <<<<"n","o","t"," ","w","o","r","k","i","n","g">>, <<"n","o","t"," ","a","v","a","i","l","a","b","l","e">>, <<"b","r","o","k","e","n">>, <<"d","o","w","n">>, <<"o","f","f","l","i","n","e">>, <<"u","n","a","v","a","i","l","a","b","l","e">>>>

kw_assign == <<<<"a","s","s","i","g","n">>, <<"a","s","s","i","g","n","m","e","n","t">>, <<"a","l","l","o","c","a","t","e">>>>

kw_show_available == <<<<"s","h","o","w"," ","a","v","a","i","l","a","b","l","e">>, <<"l","i","s","t"," ","a","v","a","i","l","a","b","l","e">>>>

kw_roster_drones == <<<<"s","h","o","w"," ","a","l","l"," ","d","r","o","n","e","s">>, <<"l","i","s","t"," ","a","l","l"," ","d","r","o","n","e","s">>, <<"a","l","l"," ","d","r","o","n","e","s">>, <<"s","h","o","w"," ","d","r","o","n","e","s">>, <<"l","i","s","t"," ","d","r","o","n","e","s">>>>

kw_roster_pilots == <<<<"s","h","o","w"," ","a","l","l"," ","p","i","l","o","t","s">>, <<"l","i","s","t"," ","a","l","l"," ","p","i","l","o","t","s">>, <<"a","l","l"," ","p","i","l","o","t","s">>, <<"s","h","o","w"," ","p","i","l","o","t","s">>, <<"l","i","s","t"," ","p","i","l","o","t","s">>>>

kw_show_missions == <<<<"s","h","o","w"," ","m","i","s","s","i","o","n","s">>, <<"l","i","s","t"," ","m","i","s","s","i","o","n","s">>, <<"a","c","t","i","v","e"," ","m","i","s","s","i","o","n","s">>, <<"a","l","l"," ","m","i","s","s","i","o","n","s">>>>

kw_recommend == <<<<"r","e","c","o","m","m","e","n","d">>, <<"r","e","p","l","a","c","e","m","e","n","t">>, <<"w","h","o"," ","c","a","n">>, <<"s","u","g","g","e","s","t">>>>

kw_update_status == <<<<"u","p","d","a","t","e"," ","s","t","a","t","u","s">>, <<"s","e","t"," ","s","t","a","t","u","s">>, <<"m","a","r","k"," ","a","s">>, <<"c","h","a","n","g","e"," ","s","t","a","t","u","s">>>>

kw_check_status == <<<<"s","t","a","t","u","s"," ","o","f">>, <<"c","h","e","c","k"," ","s","t","a","t","u","s">>, <<"i","s"," ","a","v","a","i","l","a","b","l","e">>>>

kw_find_info == <<<<"f","i","n","d">>, <<"s","h","o","w">>, <<"g","e","t">>, <<"d","e","t","a","i","l","s">>, <<"i","n","f","o">>, <<"w","h","e","r","e"," ","i","s">>, <<"w","h","o"," ","i","s">>>>

(***************************************************************************)
(* parse_intent: the intent by first matching keyword group, the entity by *)
(* the first qualifying token.                                             *)
(***************************************************************************)
\* the groups left to the dictionary loop, in dictionary order
intents_rest == << <<"recommend", kw_recommend>>, <<"update_status", kw_update_status>>,
                   <<"check_status", kw_check_status>>, <<"find_info", kw_find_info>> >>

RECURSIVE first_rest(_, _)
first_rest(t, i) ==
    IF i > Len(intents_rest) THEN "None"
    ELSE IF any_kw(t, intents_rest[i][2]) THEN intents_rest[i][1]
    ELSE first_rest(t, i + 1)

detect_intent(user_input_lower) ==
    IF any_kw(user_input_lower, kw_delete) THEN "delete"
    ELSE IF any_kw(user_input_lower, kw_edit) THEN "edit"
    ELSE IF any_kw(user_input_lower, kw_create) THEN "create"
    ELSE IF any_kw(user_input_lower, kw_show_non_working) THEN "show_non_working"
    ELSE IF any_kw(user_input_lower, kw_assign) THEN "assign"
    ELSE IF any_kw(user_input_lower, kw_show_available) THEN "show_available"
    ELSE IF any_kw(user_input_lower, kw_roster_drones) THEN "show_roster"
    ELSE IF any_kw(user_input_lower, kw_roster_pilots) THEN "show_roster"
    ELSE IF any_kw(user_input_lower, kw_show_missions) THEN "show_missions"
    ELSE first_rest(user_input_lower, 1)

has_digit(w) == \E i \in DOMAIN w : isdigit(w[i])

\* the type of token w, "None" when w is no id token
token_type(w_upper) ==
    IF startswith(w_upper, s_PRJ) /\ has_digit(w_upper) THEN "mission"
    ELSE IF startswith(w_upper, s_P0) /\ has_digit(w_upper) THEN "pilot"
    ELSE IF startswith(w_upper, s_D0) /\ has_digit(w_upper) THEN "drone"
    ELSE "None"

\* a scan that keeps the last qualifying token
RECURSIVE extract_entity_last(_)
extract_entity_last(words) ==
    IF words = <<>> THEN [entity_id |-> None, entity_type |-> "None"]
    ELSE IF extract_entity_last(Tail(words)).entity_type # "None"
         THEN extract_entity_last(Tail(words))
    ELSE [entity_id |-> IF token_type(upper(Head(words))) # "None" THEN upper(Head(words)) ELSE None,
          entity_type |-> token_type(upper(Head(words)))]

RECURSIVE extract_entity(_)
extract_entity(words) ==
    IF words = <<>> THEN [entity_id |-> None, entity_type |-> "None"]
    ELSE IF token_type(upper(Head(words))) # "None"
         THEN [entity_id |-> upper(Head(words)), entity_type |-> token_type(upper(Head(words)))]
    ELSE extract_entity(Tail(words))

parse_intent(user_input) ==
    LET user_input_lower == lower(user_input)
        words == split(remove_char(remove_char(user_input, "?"), "."))
        e == extract_entity(words)
    IN [intent |-> detect_intent(user_input_lower),
        entity_id |-> e.entity_id,
        entity_type |-> e.entity_type,
        clean_text |-> user_input_lower]

(***************************************************************************)
(* The repository: three worksheets.  A row is a record keyed by column    *)
(* name; the header row (row 1 of the sheet) is fixed and is not part of   *)
(* the state.                                                              *)
(***************************************************************************)
PilotCols == <<"pilot_id", "name", "skills", "location", "status", "current_assignment", "available_from">>

DroneCols == <<"drone_id", "model", "location", "status", "current_assignment", "flight_hours", "last_maintenance">>

MissionCols == <<"project_id", "project_name", "location", "status", "start_date", "end_date", "required_skills", "assigned_pilot", "assigned_drone">>

\* the text of each column name, as worksheet.row_values(1) returns it
ColText ==
    [pilot_id |-> <<"p","i","l","o","t","_","i","d">>,
     name |-> <<"n","a","m","e">>,
     skills |-> <<"s","k","i","l","l","s">>,
     location |-> <<"l","o","c","a","t","i","o","n">>,
     status |-> <<"s","t","a","t","u","s">>,
     current_assignment |-> <<"c","u","r","r","e","n","t","_","a","s","s","i","g","n","m","e","n","t">>,
     available_from |-> <<"a","v","a","i","l","a","b","l","e","_","f","r","o","m">>,
     drone_id |-> <<"d","r","o","n","e","_","i","d">>,
     model |-> <<"m","o","d","e","l">>,
     flight_hours |-> <<"f","l","i","g","h","t","_","h","o","u","r","s">>,
     last_maintenance |-> <<"l","a","s","t","_","m","a","i","n","t","e","n","a","n","c","e">>,
     project_id |-> <<"p","r","o","j","e","c","t","_","i","d">>,
     project_name |-> <<"p","r","o","j","e","c","t","_","n","a","m","e">>,
     start_date |-> <<"s","t","a","r","t","_","d","a","t","e">>,
     end_date |-> <<"e","n","d","_","d","a","t","e">>,
     required_skills |-> <<"r","e","q","u","i","r","e","d","_","s","k","i","l","l","s">>,
     assigned_pilot |-> <<"a","s","s","i","g","n","e","d","_","p","i","l","o","t">>,
     assigned_drone |-> <<"a","s","s","i","g","n","e","d","_","d","r","o","n","e">>]

row_values(cols) == [i \in 1..Len(cols) |-> ColText[cols[i]]]

\* the value of cell (r, c) of a sheet; row 1 is the header row
cell_value(rows, cols, r, c) == IF r = 1 THEN ColText[cols[c]] ELSE rows[r - 1][cols[c]]

\* what find returns when no cell matches (Python's None: .row on it raises)
NoCell == [row |-> 0, col |-> 0]

\* worksheet.find(query): the first cell of the whole sheet, in row-major
\* order, whose value equals the query
find(rows, cols, query) ==
    LET hits == {rc \in (1..(Len(rows) + 1)) \X (1..Len(cols)) :
                    cell_value(rows, cols, rc[1], rc[2]) = query}
        first == CHOOSE rc \in hits : \A o \in hits :
                    rc[1] < o[1] \/ (rc[1] = o[1] /\ rc[2] <= o[2])
    IN IF hits = {} THEN NoCell ELSE [row |-> first[1], col |-> first[2]]

\* headers.index(name) + 1: the column of a header name, 0 for ValueError
col_index(cols, name) ==
    IF \E i \in DOMAIN cols : ColText[cols[i]] = name
    THEN CHOOSE i \in DOMAIN cols : ColText[cols[i]] = name
    ELSE 0

\* a write the store drops
update_cell_dropped(rows, cols, r, c, value) == rows

\* worksheet.update_cell(r, c, value); a write to the header row leaves the rows
update_cell(rows, cols, r, c, value) ==
    IF r = 1 THEN rows ELSE [rows EXCEPT ![r - 1][cols[c]] = value]

\* worksheet.delete_rows(r)
delete_rows(rows, r) ==
    IF r = 1 THEN rows
    ELSE [i \in 1..(Len(rows) - 1) |-> IF i < r - 1 THEN rows[i] ELSE rows[i + 1]]

\* worksheet.append_row([data.get(col, '') for col in headers])
\* an append that leaves the skills column out
append_row_without_skills(rows, cols, data) ==
    Append(rows, [k \in Range(cols) |-> IF k \in DOMAIN data /\ k # "skills" THEN data[k] ELSE <<>>])

append_row(rows, cols, data) ==
    Append(rows, [k \in Range(cols) |-> IF k \in DOMAIN data THEN data[k] ELSE <<>>])

\* the value "result is True" tests for, kept apart from every text
PyTrue == <<"True">>

\* messages of the exceptions the operations raise by themselves
err_none_row == <<"'","N","o","n","e","T","y","p","e","'"," ","o","b","j","e","c","t"," ","h","a","s"," ","n","o"," ","a","t","t","r","i","b","u","t","e"," ","'","r","o","w","'">>

err_max_empty == <<"m","a","x","(",")"," ","a","r","g"," ","i","s"," ","a","n"," ","e","m","p","t","y"," ","s","e","q","u","e","n","c","e">>

err_int == <<"i","n","v","a","l","i","d"," ","l","i","t","e","r","a","l"," ","f","o","r"," ","i","n","t","(",")"," ","w","i","t","h"," ","b","a","s","e"," ","1","0">>

err_not_in_list == <<"i","s"," ","n","o","t"," ","i","n"," ","l","i","s","t">>

(***************************************************************************)
(* OpsAgent: the mutating operations.  Each runs inside try/except: a      *)
(* raised exception ends the operation, what was written before it stays   *)
(* written, and the operation returns the exception's text.  The store is  *)
(* external: f names the store call of the operation that raises (0: none  *)
(* does) and err is the text of that exception.  An operation yields       *)
(* [result, ..., writes]: what it returns, the rows it leaves and the      *)
(* number of writes it made.                                               *)
(***************************************************************************)
quote == <<"'">>

Max(S) == CHOOSE m \in S : \A n \in S : n <= m

\* the ids of a snapshot that start with the prefix, with the prefix cut off
id_suffixes(ids, prefix) ==
    SelectSeq([i \in DOMAIN ids |-> IF startswith(ids[i], prefix)
                                    THEN SubSeq(ids[i], Len(prefix) + 1, Len(ids[i]))
                                    ELSE None],
              LAMBDA t : t # None)

\* an id made from the number of ids of the prefix
next_id_by_count(ids, prefix) ==
    [ok |-> TRUE, text |-> prefix \o zfill(str(Len(id_suffixes(ids, prefix)) + 1), 3)]

\* the next id of a prefix, or the text of the exception int() or max() raises
next_id(ids, prefix) ==
    LET sufs == id_suffixes(ids, prefix)
        bad  == {i \in DOMAIN sufs : int(sufs[i]) = -1}
    IN IF ids = <<>> THEN [ok |-> TRUE, text |-> prefix \o <<"0", "0", "1">>]
       ELSE IF bad # {}
            THEN [ok |-> FALSE,
                  text |-> err_int \o <<":", " ">> \o quote \o sufs[CHOOSE i \in bad : \A j \in bad : i <= j] \o quote]
       ELSE IF sufs = <<>> THEN [ok |-> FALSE, text |-> err_max_empty]
       ELSE [ok |-> TRUE,
             text |-> prefix \o zfill(str(Max({int(sufs[i]) : i \in DOMAIN sufs}) + 1), 3)]

\* add_pilot, add_drone and add_mission differ in the id column and the prefix
add_entity(data, snapshot, ws, cols, id_col, prefix, f, err) ==
    LET nid == next_id([i \in DOMAIN snapshot |-> snapshot[i][id_col]], prefix)
    IN IF ~nid.ok THEN [result |-> nid.text, rows |-> ws, writes |-> 0]
       ELSE IF f \in {1, 2} THEN [result |-> err, rows |-> ws, writes |-> 0]
       ELSE [result |-> nid.text,
             rows |-> append_row(ws, cols, (id_col :> nid.text) @@ data),
             writes |-> 1]

add_pilot(pilot_data, all_pilots, worksheet, f, err) ==
    add_entity(pilot_data, all_pilots, worksheet, PilotCols, "pilot_id", s_P, f, err)

add_drone(drone_data, all_drones, worksheet, f, err) ==
    add_entity(drone_data, all_drones, worksheet, DroneCols, "drone_id", s_D, f, err)

add_mission(mission_data, all_missions, worksheet, f, err) ==
    add_entity(mission_data, all_missions, worksheet, MissionCols, "project_id", s_PRJ, f, err)

\* assign_pilot_to_mission and assign_drone_to_mission: two writes on the
\* resource row, then one on the mission row (store calls 1..7)
assign_to_mission(res_id, project_id, res_ws, res_cols, missions_ws, back_col, f, err) ==
    LET res_cell       == find(res_ws, res_cols, res_id)
        assignment_col == col_index(res_cols, ColText["current_assignment"])
        status_col     == col_index(res_cols, ColText["status"])
        ws1            == update_cell(res_ws, res_cols, res_cell.row, assignment_col, project_id)
        ws2            == update_cell(ws1, res_cols, res_cell.row, status_col, s_Assigned)
        mission_cell   == find(missions_ws, MissionCols, project_id)
        back_idx       == col_index(MissionCols, ColText[back_col])
        ms1            == update_cell(missions_ws, MissionCols, mission_cell.row, back_idx, res_id)
    IN IF f \in {1, 2} THEN [result |-> err, res |-> res_ws, missions |-> missions_ws, writes |-> 0]
       ELSE IF res_cell = NoCell
            THEN [result |-> err_none_row, res |-> res_ws, missions |-> missions_ws, writes |-> 0]
       ELSE IF f = 3 THEN [result |-> err, res |-> res_ws, missions |-> missions_ws, writes |-> 0]
       ELSE IF f = 4 THEN [result |-> err, res |-> ws1, missions |-> missions_ws, writes |-> 1]
       ELSE IF f \in {5, 6} THEN [result |-> err, res |-> ws2, missions |-> missions_ws, writes |-> 2]
       ELSE IF mission_cell = NoCell
            THEN [result |-> err_none_row, res |-> ws2, missions |-> missions_ws, writes |-> 2]
       ELSE IF f = 7 THEN [result |-> err, res |-> ws2, missions |-> missions_ws, writes |-> 2]
       ELSE [result |-> PyTrue, res |-> ws2, missions |-> ms1, writes |-> 3]

\* an assignment that reports success without the write on the mission row
assign_pilot_to_mission_one_sided(pilot_id, project_id, pilots_ws, missions_ws, f, err) ==
    [assign_to_mission(pilot_id, project_id, pilots_ws, PilotCols, missions_ws, "assigned_pilot", f, err)
        EXCEPT !.missions = missions_ws]

assign_pilot_to_mission(pilot_id, project_id, pilots_ws, missions_ws, f, err) ==
    assign_to_mission(pilot_id, project_id, pilots_ws, PilotCols, missions_ws, "assigned_pilot", f, err)

assign_drone_to_mission(drone_id, project_id, drones_ws, missions_ws, f, err) ==
    assign_to_mission(drone_id, project_id, drones_ws, DroneCols, missions_ws, "assigned_drone", f, err)

\* update_*_field: find, the header row, headers.index(field_name), one write
\* (store calls 1..3)
update_field(entity_id, field_name, new_value, worksheet, cols, f, err) ==
    LET cell    == find(worksheet, cols, entity_id)
        col_idx == col_index(cols, field_name)
    IN IF f \in {1, 2} THEN [result |-> err, rows |-> worksheet, writes |-> 0]
       ELSE IF col_idx = 0
            THEN [result |-> quote \o field_name \o quote \o <<" ">> \o err_not_in_list,
                  rows |-> worksheet, writes |-> 0]
       ELSE IF cell = NoCell THEN [result |-> err_none_row, rows |-> worksheet, writes |-> 0]
       ELSE IF f = 3 THEN [result |-> err, rows |-> worksheet, writes |-> 0]
       ELSE [result |-> PyTrue,
             rows |-> update_cell(worksheet, cols, cell.row, col_idx, new_value),
             writes |-> 1]

update_pilot_field(pilot_id, field_name, new_value, worksheet, f, err) ==
    update_field(pilot_id, field_name, new_value, worksheet, PilotCols, f, err)

update_drone_field(drone_id, field_name, new_value, worksheet, f, err) ==
    update_field(drone_id, field_name, new_value, worksheet, DroneCols, f, err)

update_mission_field(project_id, field_name, new_value, worksheet, f, err) ==
    update_field(project_id, field_name, new_value, worksheet, MissionCols, f, err)

\* update_*_status: the same with the status column
update_pilot_status(pilot_id, new_status, worksheet, f, err) ==
    update_field(pilot_id, ColText["status"], new_status, worksheet, PilotCols, f, err)

update_drone_status(drone_id, new_status, worksheet, f, err) ==
    update_field(drone_id, ColText["status"], new_status, worksheet, DroneCols, f, err)

update_mission_status(project_id, new_status, worksheet, f, err) ==
    update_field(project_id, ColText["status"], new_status, worksheet, MissionCols, f, err)

\* delete_*: find, then delete the row of the cell found (store calls 1..2)
delete_entity(entity_id, worksheet, cols, f, err) ==
    LET cell == find(worksheet, cols, entity_id)
    IN IF f = 1 THEN [result |-> err, rows |-> worksheet, writes |-> 0]
       ELSE IF cell = NoCell THEN [result |-> err_none_row, rows |-> worksheet, writes |-> 0]
       ELSE IF f = 2 THEN [result |-> err, rows |-> worksheet, writes |-> 0]
       ELSE [result |-> PyTrue, rows |-> delete_rows(worksheet, cell.row), writes |-> 1]

delete_pilot(pilot_id, worksheet, f, err) == delete_entity(pilot_id, worksheet, PilotCols, f, err)

delete_drone(drone_id, worksheet, f, err) == delete_entity(drone_id, worksheet, DroneCols, f, err)

delete_mission(project_id, worksheet, f, err) == delete_entity(project_id, worksheet, MissionCols, f, err)

(***************************************************************************)
(* OpsAgent: the read-only reasoning over the snapshot load_data read      *)
(* (self.pilots, self.drones, self.missions).  A frame read from a sheet   *)
(* with no data rows has no columns, so selecting a column of it raises    *)
(* KeyError.                                                               *)
(***************************************************************************)
\* [x.strip() for x in t.split(',')]
split_skills(t) == LET parts == split_sep(t, ",") IN [i \in DOMAIN parts |-> strip(parts[i])]

\* the rows of a frame that satisfy a test, in frame order, as row numbers
select_idx(frame, Test(_), from) ==
    SelectSeq([i \in 1..Len(frame) |-> i], LAMBDA i : i >= from /\ Test(frame[i]))

\* a truthy assignment cell that is not the dash marker
has_assignment(row) == row.current_assignment # <<>> /\ row.current_assignment # s_dash

\* the number of list entries that satisfy a test: sum(1 for s in l if ...)
count_if(l, Test(_)) == Cardinality({i \in DOMAIN l : Test(l[i])})

\* the score of a skills cell: sum(1 for s in req_skills if s in x), where
\* "in" is the substring test on the cell's text
score_of(skills, req_skills) == count_if(req_skills, LAMBDA s : contains(skills, s))

\* candidates filtered on the status alone
candidates_of_any_location(mission, pilots_df) ==
    LET req_skills == split_skills(mission.required_skills)
        idxs == select_idx(pilots_df, LAMBDA p : p.status = s_Available, 1)
    IN [k \in DOMAIN idxs |->
          [idx |-> idxs[k],
           name |-> pilots_df[idxs[k]].name,
           pilot_id |-> pilots_df[idxs[k]].pilot_id,
           skills |-> pilots_df[idxs[k]].skills,
           location |-> pilots_df[idxs[k]].location,
           score |-> score_of(pilots_df[idxs[k]].skills, req_skills)]]

\* candidates of recommend_replacement before the sort: the Available pilots
\* at the mission's location, in snapshot order, each with its score; idx is
\* the frame index label the row keeps
candidates_of(mission, pilots_df) ==
    LET req_skills == split_skills(mission.required_skills)
        idxs == select_idx(pilots_df,
                           LAMBDA p : p.status = s_Available /\ p.location = mission.location, 1)
    IN [k \in DOMAIN idxs |->
          [idx |-> idxs[k],
           name |-> pilots_df[idxs[k]].name,
           pilot_id |-> pilots_df[idxs[k]].pilot_id,
           skills |-> pilots_df[idxs[k]].skills,
           location |-> pilots_df[idxs[k]].location,
           score |-> score_of(pilots_df[idxs[k]].skills, req_skills)]]

\* all orders of the integers 1..n
RECURSIVE Perms(_)
Perms(n) ==
    IF n = 0 THEN {<<>>}
    ELSE {[i \in 1..n |-> IF i < k THEN p[i] ELSE IF i = k THEN n ELSE p[i - 1]] :
            p \in Perms(n - 1), k \in 1..n}

\* sort_values(by='score', ascending=False) with the default kind, quicksort,
\* which is not a stable sort: every order of the rows with scores
\* non-increasing is a possible result
sort_values_desc(frame) ==
    {[i \in DOMAIN frame |-> frame[p[i]]] : p \in
        {q \in Perms(Len(frame)) :
            \A i \in 1..(Len(frame) - 1) : frame[q[i]].score >= frame[q[i + 1]].score}}

\* a returned frame, and the outcome of a call that raised KeyError instead
Returned(frame) == [raised |-> FALSE, frame |-> frame]

Raised == [raised |-> TRUE, frame |-> <<>>]

\* recommend_replacement: the set of outcomes it can have.  Both early returns
\* give the empty frame pd.DataFrame().
recommend_replacement(project_id, pilots_df, missions_df) ==
    LET pid == upper(strip(project_id))
        mission_rows == select_idx(missions_df, LAMBDA m : m.project_id = pid, 1)
        mission == missions_df[mission_rows[1]]
    IN IF missions_df = <<>> THEN {Raised}
       ELSE IF mission_rows = <<>> THEN {Returned(<<>>)}
       ELSE IF pilots_df = <<>> THEN {Raised}
       ELSE IF candidates_of(mission, pilots_df) = <<>> THEN {Returned(<<>>)}
       ELSE {Returned(fr) : fr \in sort_values_desc(candidates_of(mission, pilots_df))}

\* get_available_resources / get_non_working_resources for one kind
available_rows(df) == select_idx(df, LAMBDA r : r.status = s_Available, 1)

non_working_rows(df) == select_idx(df, LAMBDA r : r.status # s_Available, 1)

\* get_pilot_info, get_drone_info, get_mission_info: the first row with the id
\* (found), None when there is none; KeyError on a frame without columns
get_info(df, id_col, id) ==
    LET hit == select_idx(df, LAMBDA r : r[id_col] = id, 1)
    IN IF df = <<>> THEN [raised |-> TRUE, found |-> FALSE, info |-> None]
       ELSE IF hit = <<>> THEN [raised |-> FALSE, found |-> FALSE, info |-> None]
       ELSE [raised |-> FALSE, found |-> TRUE, info |-> df[hit[1]]]

get_pilot_info(pilots_df, pilot_id) == get_info(pilots_df, "pilot_id", pilot_id)

get_drone_info(drones_df, drone_id) == get_info(drones_df, "drone_id", drone_id)

get_mission_info(missions_df, project_id) == get_info(missions_df, "project_id", upper(strip(project_id)))

(***************************************************************************)
(* check_conflicts.  Dates are ISO texts YYYY-MM-DD; pd.to_datetime of one *)
(* is ordered like the number YYYYMMDD.  An empty cell gives NaT, which    *)
(* compares False with everything; any other text is taken to raise.       *)
(***************************************************************************)
NaT == -1

BadDate == -2

is_iso_date(t) ==
    /\ Len(t) = 10
    /\ t[5] = "-" /\ t[8] = "-"
    /\ \A i \in {1, 2, 3, 4, 6, 7, 9, 10} : isdigit(t[i])

to_datetime(t) ==
    IF t = <<>> THEN NaT
    ELSE IF is_iso_date(t) THEN int(remove_char(t, "-"))
    ELSE BadDate

\* a >= b on timestamps
later_or_same(a, b) == a # NaT /\ b # NaT /\ a >= b

\* a > b on timestamps
later_than(a, b) == a # NaT /\ b # NaT /\ a > b

\* the conflicts of one pilot row, in the order the code appends them
pilot_conflicts(pilot, missions_df) ==
    LET hit == select_idx(missions_df, LAMBDA m : m.project_id = pilot.current_assignment, 1)
        m_data == missions_df[hit[1]]
        req_skills == split_skills(m_data.required_skills)
        missing == SelectSeq(req_skills, LAMBDA s : ~contains(pilot.skills, s))
        date == IF later_than(to_datetime(pilot.available_from), to_datetime(m_data.end_date))
                THEN << [type |-> "Pilot Date Overlap", entity |-> pilot.name,
                         detail |-> <<pilot.current_assignment, pilot.available_from>>,
                         severity |-> "High"] >>
                ELSE <<>>
        skill == IF missing # <<>>
                 THEN << [type |-> "Skill Mismatch", entity |-> pilot.name,
                          detail |-> <<missing, pilot.current_assignment>>,
                          severity |-> "Medium"] >>
                 ELSE <<>>
    IN IF ~has_assignment(pilot) \/ hit = <<>> THEN <<>> ELSE date \o skill

\* whether the pilot loop raises on this row: a frame without columns, or a
\* date pd.to_datetime cannot read
pilot_raises(pilot, missions_df) ==
    LET hit == select_idx(missions_df, LAMBDA m : m.project_id = pilot.current_assignment, 1)
    IN has_assignment(pilot) /\
       (\/ missions_df = <<>>
        \/ hit # <<>> /\ (\/ to_datetime(missions_df[hit[1]].end_date) = BadDate
                          \/ to_datetime(pilot.available_from) = BadDate))

\* the conflicts of one drone row
drone_conflicts(drone, missions_df) ==
    LET hit == select_idx(missions_df, LAMBDA m : m.project_id = drone.current_assignment, 1)
        mission_loc == missions_df[hit[1]].location
        maint == IF drone.status = s_Maintenance
                 THEN << [type |-> "Drone in Maintenance", entity |-> drone.drone_id,
                          detail |-> <<drone.current_assignment>>,
                          severity |-> "High"] >>
                 ELSE <<>>
        loc == IF hit # <<>> /\ drone.location # mission_loc
               THEN << [type |-> "Drone Location Mismatch", entity |-> drone.drone_id,
                        detail |-> <<drone.location, mission_loc>>,
                        severity |-> "Medium"] >>
               ELSE <<>>
    IN IF ~has_assignment(drone) THEN <<>> ELSE maint \o loc

drone_raises(drone, missions_df) == has_assignment(drone) /\ missions_df = <<>>

\* the lists of the rows, one after the other
RECURSIVE concat(_)
concat(lists) == IF lists = <<>> THEN <<>> ELSE Head(lists) \o concat(Tail(lists))

\* check_conflicts: the list it returns, or the fact that it raised
check_conflicts(pilots_df, drones_df, missions_df) ==
    IF \/ \E i \in DOMAIN pilots_df : pilot_raises(pilots_df[i], missions_df)
       \/ \E i \in DOMAIN drones_df : drone_raises(drones_df[i], missions_df)
    THEN [raised |-> TRUE, conflicts |-> <<>>]
    ELSE [raised |-> FALSE,
          conflicts |-> concat([i \in DOMAIN pilots_df |-> pilot_conflicts(pilots_df[i], missions_df)])
                        \o concat([i \in DOMAIN drones_df |-> drone_conflicts(drones_df[i], missions_df)])]

(***************************************************************************)
(* Bound: at most MaxEdits turns of a session write to a sheet.             *)
(***************************************************************************)
MaxEdits == 1

(***************************************************************************)
(* State.                                                                  *)
(***************************************************************************)
VARIABLES
    pilots,     \* rows of the Pilots worksheet
    drones,     \* rows of the Drones worksheet
    missions,   \* rows of the Missions worksheet
    ctx,        \* st.session_state.context of the session
    last,       \* what the last turn did: the handler that ran and its response
    edits,      \* number of turns so far that wrote to a sheet
    recs,       \* the calls of recommend_replacement made on the snapshot
    conflicts   \* the outcome of the last check_conflicts run

vars == <<pilots, drones, missions, ctx, last, edits, recs, conflicts>>

repo == <<pilots, drones, missions>>

(***************************************************************************)
(* ConversationContext.                                                    *)
(***************************************************************************)
EmptyDict == <<>>

\* a clear() that leaves the flow state of the delete confirmation in place
clear_keeps_action ==
    [awaiting_response |-> FALSE, current_action |-> "awaiting_delete_confirmation",
     temp_data |-> EmptyDict, last_query |-> "None"]

\* __init__ and clear()
clear == [awaiting_response |-> FALSE, current_action |-> "None",
          temp_data |-> EmptyDict, last_query |-> "None"]

\* a set_awaiting that records the action without raising the flag
set_awaiting_unflagged(c, action, data) ==
    [c EXCEPT !.current_action = action,
              !.temp_data = IF data # EmptyDict THEN data ELSE c.temp_data]

\* set_awaiting(action, data): temp_data is replaced only by a truthy data
set_awaiting(c, action, data) ==
    [c EXCEPT !.awaiting_response = TRUE,
              !.current_action = action,
              !.temp_data = IF data # EmptyDict THEN data ELSE c.temp_data]

\* a context that never reports a pending flow
is_awaiting_never(c) == FALSE

is_awaiting(c) == c.awaiting_response

\* a dict with the new key alone
dict_set_alone(d, key, value) == (key :> value)

\* temp_data[key] = value
dict_set(d, key, value) == (key :> value) @@ d

(***************************************************************************)
(* main: one chat turn.  load_data reads the three sheets afresh at the    *)
(* start of every run, so the frames of a turn are the rows at its start.  *)
(***************************************************************************)
NoReply == [handler |-> "none", action |-> "None", response |-> "none", writes |-> 0,
            resource |-> None, mission |-> None, data |-> EmptyDict]

\* the record of a turn: handler is "flow" or "dispatch"; resource is the id
\* the response names
Reply(handler, response, writes, resource, mission) ==
    [handler |-> handler, action |-> ctx.current_action, response |-> response,
     writes |-> writes, resource |-> resource, mission |-> mission, data |-> EmptyDict]

\* the record of a details turn of the creation flow: data is the dict the
\* handler builds from the line
Created(response, writes, result, data) ==
    [Reply("flow", response, writes, result, None) EXCEPT !.data = data]

\* a turn that wrote w cells counts against MaxEdits
Budget(w) ==
    /\ edits + (IF w > 0 THEN 1 ELSE 0) <= MaxEdits
    /\ edits' = edits + (IF w > 0 THEN 1 ELSE 0)

\* parts padded with blanks up to five fields
parts_of_padded(prompt) ==
    LET ps == split_sep(prompt, ",")
    IN [i \in 1..(IF Len(ps) < 5 THEN 5 ELSE Len(ps)) |-> IF i <= Len(ps) THEN strip(ps[i]) ELSE <<>>]

\* [p.strip() for p in prompt.split(',')]
parts_of(prompt) == LET ps == split_sep(prompt, ",") IN [i \in DOMAIN ps |-> strip(ps[i])]

\* what the user types
Prompts ==
    { <<"a","d","d">>,
      <<"p","i","l","o","t">>,
      <<"d","r","o","n","e">>,
      <<"m","i","s","s","i","o","n">>,
      <<"R","a","v","i",","," ","G","o","a",","," ","M","a","p","p","i","n","g",","," ","2","0","2","4","-","0","3","-","0","1">>,
      <<"S","c","a","n",","," ","G","o","a",","," ","2","0","2","4","-","0","2","-","0","1",","," ","2","0","2","4","-","0","2","-","1","5",","," ","M","a","p","p","i","n","g">>,
      <<"D","e","l","e","t","e"," ","P","0","0","1">>,
      <<"y","e","s">>,
      <<"E","d","i","t"," ","P","R","J","0","0","2">>,
      <<"l","o","c","a","t","i","o","n">>,
      <<"d","e","l","e","t","e"," ","P","R","J","0","0","2">>,
      <<"P","0","0","2">>,
      <<"a","s","s","i","g","n">>,
      <<"P","R","J","0","0","1">>,
      <<"P","R","J","0","0","2">>,
      <<"D","0","0","1">>,
      <<"r","e","c","o","m","m","e","n","d"," ","P","R","J","0","0","1">>,
      <<"s","e","t"," ","s","t","a","t","u","s"," ","P","0","0","2"," ","l","e","a","v","e">>,
      <<"s","h","o","w"," ","a","v","a","i","l","a","b","l","e">>,
      <<"o","f","f","l","i","n","e">>,
      <<"f","i","n","d"," ","P","0","0","1">>,
      <<"s","h","o","w"," ","m","i","s","s","i","o","n","s">>,
      <<"l","i","s","t"," ","p","i","l","o","t","s">> }

\* the text of the exception a failing store call raises
ErrTexts == { <<"A","P","I","E","r","r","o","r">>, <<"P","e","r","m","i","s","s","i","o","n","E","r","r","o","r">> }

\* parse_intent and the text operations main applies to a prompt, computed
\* once per prompt
\* status-update commands: a phrase of the update_status group, an id, and
\* a word for the target status or none
StatusCommands ==
    [phrase : { <<"s","e","t"," ","s","t","a","t","u","s">>, <<"m","a","r","k"," ","a","s">> },
     id : { s_P001, <<"P","0","0","2">>, s_D001, <<"D","0","0","2">>, s_PRJ001, <<"P","R","J","0","0","2">>,
            <<"P","0","0","9">> },
     word : { <<"l","e","a","v","e">>, <<"m","a","i","n","t","e","n","a","n","c","e">>,
              <<"a","s","s","i","g","n","e","d">>, <<"a","c","t","i","v","e">>,
              <<"c","o","m","p","l","e","t","e","d">>, <<"a","v","a","i","l","a","b","l","e">>, <<>> }]

text_of(c) == c.phrase \o <<" ">> \o c.id \o <<" ">> \o c.word

StatusPrompts == { text_of(c) : c \in StatusCommands }

\* the turns of edit flows: a command that names the record, a column
\* name, and a new value
EditPrompts ==
    { <<"E","d","i","t"," ","P","0","0","1">>, <<"E","d","i","t"," ","D","0","0","1">>,
      <<"E","d","i","t"," ","P","R","J","0","0","1">>,
      <<"p","i","l","o","t","_","i","d">>, <<"d","r","o","n","e","_","i","d">>,
      <<"p","r","o","j","e","c","t","_","i","d">>, <<"l","o","c","a","t","i","o","n">>,
      <<"P","0","0","2">>, <<"D","0","0","2">>, <<"P","R","J","0","0","2">>, <<"G","o","a">> }

\* the turns of creation flows: the command, the kind, and the example
\* lines the flow shows for a pilot, a drone and a mission
CreatePrompts ==
    { <<"a","d","d">>, s_pilot, s_drone, s_mission,
      <<"J","o","h","n"," ","D","o","e",","," ","M","u","m","b","a","i",","," ","M","a","p","p","i","n","g",",","I","n","s","p","e","c","t","i","o","n",","," ","2","0","2","4","-","0","1","-","1","5">>,
      <<"D","J","I"," ","P","h","a","n","t","o","m"," ","5",","," ","D","e","l","h","i",","," ","1","2","0",","," ","2","0","2","4","-","0","1","-","1","0">>,
      <<"P","i","p","e","l","i","n","e"," ","S","u","r","v","e","y",","," ","B","a","n","g","a","l","o","r","e",","," ","2","0","2","4","-","0","2","-","0","1",","," ","2","0","2","4","-","0","2","-","1","5",","," ","M","a","p","p","i","n","g",",","T","h","e","r","m","a","l">> }

typed ==
    [p \in Prompts \cup StatusPrompts \cup EditPrompts \cup CreatePrompts |->
        [parsed |-> parse_intent(p),
         parts |-> parts_of(p),
         field_name |-> lower(strip(p)),
         new_value |-> strip(p),
         pilot |-> contains(lower(p), s_pilot),
         drone |-> contains(lower(p), s_drone),
         mission |-> contains(lower(p), s_mission),
         confirmed |-> contains(lower(p), s_yes) \/ contains(lower(p), s_confirm)]]

\* the smart name lookup of a new conversation: the entity of parse_intent,
\* else the first pilot whose name occurs in the text, else the first drone
\* whose model does
name_lookup(parsed, pilots_df, drones_df) ==
    LET ph == select_idx(pilots_df, LAMBDA r : contains(parsed.clean_text, lower(r.name)), 1)
        dh == select_idx(drones_df, LAMBDA r : contains(parsed.clean_text, lower(r.model)), 1)
    IN IF parsed.entity_id # None
       THEN [entity_id |-> parsed.entity_id, entity_type |-> parsed.entity_type]
       ELSE IF ph # <<>> THEN [entity_id |-> pilots_df[ph[1]].pilot_id, entity_type |-> "pilot"]
       ELSE IF dh # <<>> THEN [entity_id |-> drones_df[dh[1]].drone_id, entity_type |-> "drone"]
       ELSE [entity_id |-> None, entity_type |-> "None"]

\* the intent and the entity a new conversation dispatches on
understood(prompt) ==
    LET parsed == typed[prompt].parsed
        e == name_lookup(parsed, pilots, drones)
    IN [intent |-> parsed.intent, entity_id |-> e.entity_id,
        entity_type |-> e.entity_type, clean_text |-> parsed.clean_text]

\* a flow handler runs when the context awaits a response in its state
Awaiting(action) == is_awaiting(ctx) /\ ctx.current_action = action

\* ---------------------------------------------------------- create flows
FlowCreateType(prompt) ==
    /\ Awaiting("awaiting_create_type")
    /\ IF typed[prompt].pilot
       THEN /\ ctx' = set_awaiting(ctx, "awaiting_pilot_details", EmptyDict)
            /\ last' = Reply("flow", "ask_pilot_details", 0, None, None)
       ELSE IF typed[prompt].drone
       THEN /\ ctx' = set_awaiting(ctx, "awaiting_drone_details", EmptyDict)
            /\ last' = Reply("flow", "ask_drone_details", 0, None, None)
       ELSE IF typed[prompt].mission
       THEN /\ ctx' = set_awaiting(ctx, "awaiting_mission_details", EmptyDict)
            /\ last' = Reply("flow", "ask_mission_details", 0, None, None)
       ELSE /\ ctx' = ctx
            /\ last' = Reply("flow", "ask_create_type_again", 0, None, None)
    /\ UNCHANGED <<repo, edits, recs, conflicts>>

FlowPilotDetails(prompt, f, err) ==
    /\ Awaiting("awaiting_pilot_details")
    /\ LET parts == typed[prompt].parts
           pilot_data == [name |-> parts[1], location |-> parts[2], skills |-> parts[3],
                          available_from |-> parts[4], status |-> s_Available,
                          current_assignment |-> s_dash]
           r == add_pilot(pilot_data, pilots, pilots, f, err)
       IN IF Len(parts) >= 4
          THEN /\ pilots' = r.rows
               /\ last' = Created(IF startswith(r.result, s_P) THEN "pilot_added" ELSE "pilot_add_failed",
                                  r.writes, r.result, pilot_data)
          ELSE /\ pilots' = pilots
               /\ last' = Reply("flow", "missing_information", 0, None, None)
    /\ ctx' = clear
    /\ Budget(last'.writes)
    /\ UNCHANGED <<drones, missions, recs, conflicts>>

FlowDroneDetails(prompt, f, err) ==
    /\ Awaiting("awaiting_drone_details")
    /\ LET parts == typed[prompt].parts
           drone_data == [model |-> parts[1], location |-> parts[2], flight_hours |-> parts[3],
                          last_maintenance |-> parts[4], status |-> s_Available,
                          current_assignment |-> s_dash]
           r == add_drone(drone_data, drones, drones, f, err)
       IN IF Len(parts) >= 4
          THEN /\ drones' = r.rows
               /\ last' = Created(IF startswith(r.result, s_D) THEN "drone_added" ELSE "drone_add_failed",
                                  r.writes, r.result, drone_data)
          ELSE /\ drones' = drones
               /\ last' = Reply("flow", "missing_information", 0, None, None)
    /\ ctx' = clear
    /\ Budget(last'.writes)
    /\ UNCHANGED <<pilots, missions, recs, conflicts>>

FlowMissionDetails(prompt, f, err) ==
    /\ Awaiting("awaiting_mission_details")
    /\ LET parts == typed[prompt].parts
           mission_data == [project_name |-> parts[1], location |-> parts[2],
                            start_date |-> parts[3], end_date |-> parts[4],
                            required_skills |-> parts[5], status |-> s_Active,
                            assigned_pilot |-> s_dash, assigned_drone |-> s_dash]
           r == add_mission(mission_data, missions, missions, f, err)
       IN IF Len(parts) >= 5
          THEN /\ missions' = r.rows
               /\ last' = Created(IF startswith(r.result, s_PRJ) THEN "mission_created" ELSE "mission_create_failed",
                                  r.writes, r.result, mission_data)
          ELSE /\ missions' = missions
               /\ last' = Reply("flow", "missing_information", 0, None, None)
    /\ ctx' = clear
    /\ Budget(last'.writes)
    /\ UNCHANGED <<pilots, drones, recs, conflicts>>

\* ----------------------------------------------------------- delete flow
FlowDeleteConfirmation(prompt, f, err) ==
    /\ Awaiting("awaiting_delete_confirmation")
    /\ LET entity_id == ctx.temp_data["entity_id"]
           entity_type == ctx.temp_data["entity_type"]
           rp == delete_pilot(entity_id, pilots, f, err)
           rd == delete_drone(entity_id, drones, f, err)
           rm == delete_mission(entity_id, missions, f, err)
           result == IF entity_type = "pilot" THEN rp
                     ELSE IF entity_type = "drone" THEN rd ELSE rm
       IN IF typed[prompt].confirmed
          THEN /\ pilots' = IF entity_type = "pilot" THEN rp.rows ELSE pilots
               /\ drones' = IF entity_type = "drone" THEN rd.rows ELSE drones
               /\ missions' = IF entity_type = "mission" THEN rm.rows ELSE missions
               /\ last' = Reply("flow",
                                IF result.result = PyTrue THEN "deleted" ELSE "delete_failed",
                                result.writes, entity_id, None)
          ELSE /\ UNCHANGED repo
               /\ last' = Reply("flow", "delete_cancelled", 0, entity_id, None)
    /\ ctx' = clear
    /\ Budget(last'.writes)
    /\ UNCHANGED <<recs, conflicts>>

\* ------------------------------------------------------------- edit flow
FlowFieldToEdit(prompt) ==
    /\ Awaiting("awaiting_field_to_edit")
    /\ ctx' = set_awaiting(ctx, "awaiting_new_value",
                           dict_set(ctx.temp_data, "field_name", typed[prompt].field_name))
    /\ last' = Reply("flow", "ask_new_value", 0, None, None)
    /\ UNCHANGED <<repo, edits, recs, conflicts>>

FlowNewValue(prompt, f, err) ==
    /\ Awaiting("awaiting_new_value")
    /\ LET entity_id == ctx.temp_data["entity_id"]
           entity_type == ctx.temp_data["entity_type"]
           field_name == ctx.temp_data["field_name"]
           new_value == typed[prompt].new_value
           rp == update_pilot_field(entity_id, field_name, new_value, pilots, f, err)
           rd == update_drone_field(entity_id, field_name, new_value, drones, f, err)
           rm == update_mission_field(entity_id, field_name, new_value, missions, f, err)
           result == IF entity_type = "pilot" THEN rp
                     ELSE IF entity_type = "drone" THEN rd ELSE rm
       IN /\ pilots' = IF entity_type = "pilot" THEN rp.rows ELSE pilots
          /\ drones' = IF entity_type = "drone" THEN rd.rows ELSE drones
          /\ missions' = IF entity_type = "mission" THEN rm.rows ELSE missions
          /\ last' = Reply("flow",
                           IF result.result = PyTrue THEN "updated" ELSE "update_failed",
                           result.writes, entity_id, None)
    /\ ctx' = clear
    /\ Budget(last'.writes)
    /\ UNCHANGED <<recs, conflicts>>

\* ------------------------------------------------------- assignment flows
\* missions_df[missions_df['status'] == 'Active'] raises KeyError on a frame
\* without columns, after set_awaiting has run
FlowAssignmentType(prompt) ==
    /\ Awaiting("awaiting_assignment_type")
    /\ IF typed[prompt].pilot
       THEN /\ ctx' = set_awaiting(ctx, "awaiting_mission_for_pilot_assignment", EmptyDict)
            /\ last' = Reply("flow", IF missions = <<>> THEN "exception" ELSE "ask_mission_for_pilot",
                             0, None, None)
       ELSE IF typed[prompt].drone
       THEN /\ ctx' = set_awaiting(ctx, "awaiting_mission_for_drone_assignment", EmptyDict)
            /\ last' = Reply("flow", IF missions = <<>> THEN "exception" ELSE "ask_mission_for_drone",
                             0, None, None)
       ELSE /\ ctx' = ctx
            /\ last' = Reply("flow", "ask_assignment_type_again", 0, None, None)
    /\ UNCHANGED <<repo, edits, recs, conflicts>>

FlowMissionForPilot(prompt) ==
    /\ Awaiting("awaiting_mission_for_pilot_assignment")
    /\ LET mission_id == typed[prompt].parsed.entity_id
           selecting == set_awaiting(ctx, "awaiting_pilot_selection",
                                     dict_set(ctx.temp_data, "mission_id", mission_id))
       IN IF mission_id # None
          THEN \E r \in recommend_replacement(mission_id, pilots, missions) :
                  IF r.raised
                  THEN /\ ctx' = selecting
                       /\ last' = Reply("flow", "exception", 0, None, mission_id)
                  ELSE IF r.frame # <<>>
                  THEN /\ ctx' = selecting
                       /\ last' = Reply("flow", "pilot_candidates", 0, None, mission_id)
                  ELSE /\ ctx' = clear
                       /\ last' = Reply("flow", "no_available_pilots", 0, None, mission_id)
          ELSE /\ ctx' = ctx
               /\ last' = Reply("flow", "need_project_id", 0, None, None)
    /\ UNCHANGED <<repo, edits, recs, conflicts>>

FlowPilotSelection(prompt, f, err) ==
    /\ Awaiting("awaiting_pilot_selection")
    /\ LET pilot_id == typed[prompt].parsed.entity_id
           mission_id == ctx.temp_data["mission_id"]
           r == assign_pilot_to_mission(pilot_id, mission_id, pilots, missions, f, err)
       IN IF pilot_id # None
          THEN /\ pilots' = r.res
               /\ missions' = r.missions
               /\ ctx' = clear
               /\ last' = Reply("flow",
                                IF r.result = PyTrue THEN "assignment_complete" ELSE "assignment_failed",
                                r.writes, pilot_id, mission_id)
          ELSE /\ UNCHANGED <<pilots, missions, ctx>>
               /\ last' = Reply("flow", "need_pilot_id", 0, None, None)
    /\ Budget(last'.writes)
    /\ UNCHANGED <<drones, recs, conflicts>>

\* drones_df[drones_df['status'] == 'Available'] raises KeyError on a frame
\* without columns, after set_awaiting has run
FlowMissionForDrone(prompt) ==
    /\ Awaiting("awaiting_mission_for_drone_assignment")
    /\ LET mission_id == typed[prompt].parsed.entity_id
           selecting == set_awaiting(ctx, "awaiting_drone_selection",
                                     dict_set(ctx.temp_data, "mission_id", mission_id))
       IN IF mission_id # None
          THEN IF drones = <<>>
               THEN /\ ctx' = selecting
                    /\ last' = Reply("flow", "exception", 0, None, mission_id)
               ELSE IF available_rows(drones) # <<>>
               THEN /\ ctx' = selecting
                    /\ last' = Reply("flow", "drone_candidates", 0, None, mission_id)
               ELSE /\ ctx' = clear
                    /\ last' = Reply("flow", "no_drones_available", 0, None, mission_id)
          ELSE /\ ctx' = ctx
               /\ last' = Reply("flow", "need_project_id", 0, None, None)
    /\ UNCHANGED <<repo, edits, recs, conflicts>>

FlowDroneSelection(prompt, f, err) ==
    /\ Awaiting("awaiting_drone_selection")
    /\ LET drone_id == typed[prompt].parsed.entity_id
           mission_id == ctx.temp_data["mission_id"]
           r == assign_drone_to_mission(drone_id, mission_id, drones, missions, f, err)
       IN IF drone_id # None
          THEN /\ drones' = r.res
               /\ missions' = r.missions
               /\ ctx' = clear
               /\ last' = Reply("flow",
                                IF r.result = PyTrue THEN "assignment_complete" ELSE "assignment_failed",
                                r.writes, drone_id, mission_id)
          ELSE /\ UNCHANGED <<drones, missions, ctx>>
               /\ last' = Reply("flow", "need_drone_id", 0, None, None)
    /\ Budget(last'.writes)
    /\ UNCHANGED <<pilots, recs, conflicts>>

\* ------------------------------------------------------- new conversation
\* A new conversation runs the handler of the intent parse_intent detects
NewConversation(prompt, intent) == ~is_awaiting(ctx) /\ understood(prompt).intent = intent

DispatchCreate(prompt) ==
    /\ NewConversation(prompt, "create")
    /\ ctx' = set_awaiting(ctx, "awaiting_create_type", EmptyDict)
    /\ last' = Reply("dispatch", "ask_create_type", 0, None, None)
    /\ UNCHANGED <<repo, edits, recs, conflicts>>

DispatchDelete(prompt) ==
    /\ NewConversation(prompt, "delete")
    /\ LET u == understood(prompt)
       IN IF u.entity_id # None
          THEN /\ ctx' = set_awaiting(ctx, "awaiting_delete_confirmation",
                                      ("entity_id" :> u.entity_id) @@ ("entity_type" :> u.entity_type))
               /\ last' = Reply("dispatch", "confirm_delete", 0, u.entity_id, None)
          ELSE /\ ctx' = ctx
               /\ last' = Reply("dispatch", "ask_delete_id", 0, None, None)
    /\ UNCHANGED <<repo, edits, recs, conflicts>>

\* the info lookup of the entity's type
info_of(entity_id, entity_type) ==
    IF entity_type = "pilot" THEN get_pilot_info(pilots, entity_id)
    ELSE IF entity_type = "drone" THEN get_drone_info(drones, entity_id)
    ELSE get_mission_info(missions, entity_id)

DispatchEdit(prompt) ==
    /\ NewConversation(prompt, "edit")
    /\ LET u == understood(prompt)
           info == info_of(u.entity_id, u.entity_type)
       IN IF u.entity_id # None
          THEN IF info.raised
               THEN /\ ctx' = ctx
                    /\ last' = Reply("dispatch", "exception", 0, u.entity_id, None)
               ELSE IF info.found
               THEN /\ ctx' = set_awaiting(ctx, "awaiting_field_to_edit",
                                           ("entity_id" :> u.entity_id) @@ ("entity_type" :> u.entity_type))
                    /\ last' = Reply("dispatch", "ask_field", 0, u.entity_id, None)
               ELSE /\ ctx' = ctx
                    /\ last' = Reply("dispatch", "not_found", 0, u.entity_id, None)
          ELSE /\ ctx' = ctx
               /\ last' = Reply("dispatch", "ask_edit_id", 0, None, None)
    /\ UNCHANGED <<repo, edits, recs, conflicts>>

DispatchAssign(prompt) ==
    /\ NewConversation(prompt, "assign")
    /\ ctx' = set_awaiting(ctx, "awaiting_assignment_type", EmptyDict)
    /\ last' = Reply("dispatch", "ask_assignment_type", 0, None, None)
    /\ UNCHANGED <<repo, edits, recs, conflicts>>

\* the frames a listing selects the status column of: "drone" in the text
\* takes the drones, else "pilot" the pilots, else both
listed_frames(clean_text) ==
    IF contains(clean_text, s_drone) THEN <<drones>>
    ELSE IF contains(clean_text, s_pilot) THEN <<pilots>>
    ELSE <<pilots, drones>>

DispatchShowAvailable(prompt) ==
    /\ NewConversation(prompt, "show_available")
    /\ LET frames == listed_frames(understood(prompt).clean_text)
       IN last' = Reply("dispatch",
                        IF \E i \in DOMAIN frames : frames[i] = <<>> THEN "exception"
                        ELSE IF Len(frames) = 1 /\ available_rows(frames[1]) = <<>> THEN "none_available"
                        ELSE "available_resources",
                        0, None, None)
    /\ UNCHANGED <<repo, ctx, edits, recs, conflicts>>

DispatchShowNonWorking(prompt) ==
    /\ NewConversation(prompt, "show_non_working")
    /\ LET frames == listed_frames(understood(prompt).clean_text)
       IN last' = Reply("dispatch",
                        IF \E i \in DOMAIN frames : frames[i] = <<>> THEN "exception"
                        ELSE IF Len(frames) = 1 /\ non_working_rows(frames[1]) = <<>> THEN "all_working"
                        ELSE "non_working_resources",
                        0, None, None)
    /\ UNCHANGED <<repo, ctx, edits, recs, conflicts>>

DispatchFindInfo(prompt) ==
    /\ \/ NewConversation(prompt, "find_info")
       \/ NewConversation(prompt, "check_status")
    /\ LET u == understood(prompt)
           info == info_of(u.entity_id, u.entity_type)
       IN last' = Reply("dispatch",
                        IF u.entity_id = None THEN "ask_find"
                        ELSE IF info.raised THEN "exception"
                        ELSE IF info.found THEN "info" ELSE "not_found",
                        0, u.entity_id, None)
    /\ UNCHANGED <<repo, ctx, edits, recs, conflicts>>

DispatchRecommend(prompt) ==
    /\ NewConversation(prompt, "recommend")
    /\ LET u == understood(prompt)
       IN IF u.entity_id # None /\ u.entity_type = "mission"
          THEN \E r \in recommend_replacement(u.entity_id, pilots, missions) :
                  last' = Reply("dispatch",
                                IF r.raised THEN "exception"
                                ELSE IF r.frame # <<>> THEN "recommendations"
                                ELSE "no_available_pilots",
                                0, None, u.entity_id)
          ELSE last' = Reply("dispatch", "ask_which_mission", 0, None, None)
    /\ UNCHANGED <<repo, ctx, edits, recs, conflicts>>

s_leave == <<"l","e","a","v","e">>

s_mainten == <<"m","a","i","n","t","e","n">>

s_assign == <<"a","s","s","i","g","n">>

s_active == <<"a","c","t","i","v","e">>

s_complete == <<"c","o","m","p","l","e","t","e">>

\* the status an update writes, by keyword presence in the text
new_status_of(clean_text) ==
    IF contains(clean_text, s_leave) THEN s_OnLeave
    ELSE IF contains(clean_text, s_mainten) THEN s_Maintenance
    ELSE IF contains(clean_text, s_assign) THEN s_Assigned
    ELSE IF contains(clean_text, s_active) THEN s_Active
    ELSE IF contains(clean_text, s_complete) THEN s_Completed
    ELSE s_Available

DispatchUpdateStatus(prompt, f, err) ==
    /\ NewConversation(prompt, "update_status")
    /\ LET u == understood(prompt)
           new_status == new_status_of(u.clean_text)
           rp == update_pilot_status(u.entity_id, new_status, pilots, f, err)
           rd == update_drone_status(u.entity_id, new_status, drones, f, err)
           rm == update_mission_status(u.entity_id, new_status, missions, f, err)
           res == IF u.entity_type = "pilot" THEN rp
                  ELSE IF u.entity_type = "drone" THEN rd ELSE rm
       IN IF u.entity_id # None
          THEN /\ pilots' = IF u.entity_type = "pilot" THEN rp.rows ELSE pilots
               /\ drones' = IF u.entity_type = "drone" THEN rd.rows ELSE drones
               /\ missions' = IF u.entity_type = "mission" THEN rm.rows ELSE missions
               /\ last' = Reply("dispatch",
                                IF res.result = PyTrue THEN "status_updated" ELSE "update_failed",
                                res.writes, u.entity_id, None)
          ELSE /\ UNCHANGED repo
               /\ last' = Reply("dispatch", "ask_update_id", 0, None, None)
    /\ Budget(last'.writes)
    /\ UNCHANGED <<ctx, recs, conflicts>>

DispatchShowMissions(prompt) ==
    /\ NewConversation(prompt, "show_missions")
    /\ last' = Reply("dispatch", IF missions = <<>> THEN "exception" ELSE "active_missions",
                     0, None, None)
    /\ UNCHANGED <<repo, ctx, edits, recs, conflicts>>

DispatchShowRoster(prompt) ==
    /\ NewConversation(prompt, "show_roster")
    /\ last' = Reply("dispatch",
                     IF contains(understood(prompt).clean_text, s_drone) THEN "all_drones" ELSE "all_pilots",
                     0, None, None)
    /\ UNCHANGED <<repo, ctx, edits, recs, conflicts>>

\* no keyword group matched: the help text
DispatchHelp(prompt) ==
    /\ NewConversation(prompt, "None")
    /\ last' = Reply("dispatch", "help", 0, None, None)
    /\ UNCHANGED <<repo, ctx, edits, recs, conflicts>>

(***************************************************************************)
(* The session: a repository with two pilots, two drones and two missions, *)
(* P002 assigned to PRJ002 on both sides of the link, and the user typing  *)
(* one of the prompts each turn.                                           *)
(***************************************************************************)
InitPilots ==
    << [pilot_id |-> <<"P","0","0","1">>, name |-> <<"A","s","h","a">>, skills |-> <<"M","a","p","p","i","n","g",","," ","T","h","e","r","m","a","l">>, location |-> <<"P","u","n","e">>, status |-> <<"A","v","a","i","l","a","b","l","e">>, current_assignment |-> <<"-">>, available_from |-> <<"2","0","2","4","-","0","1","-","1","5">>],
       [pilot_id |-> <<"P","0","0","2">>, name |-> <<"R","a","v","i">>, skills |-> <<"M","a","p","p","i","n","g">>, location |-> <<"P","u","n","e">>, status |-> <<"A","s","s","i","g","n","e","d">>, current_assignment |-> <<"P","R","J","0","0","2">>, available_from |-> <<"2","0","2","4","-","0","3","-","0","1">>] >>

InitDrones ==
    << [drone_id |-> <<"D","0","0","1">>, model |-> <<"M","a","v","i","c">>, location |-> <<"P","u","n","e">>, status |-> <<"A","v","a","i","l","a","b","l","e">>, current_assignment |-> <<"-">>, flight_hours |-> <<"1","2","0">>, last_maintenance |-> <<"2","0","2","4","-","0","1","-","1","0">>],
       [drone_id |-> <<"D","0","0","2">>, model |-> <<"A","n","a","f","i">>, location |-> <<"G","o","a">>, status |-> <<"M","a","i","n","t","e","n","a","n","c","e">>, current_assignment |-> <<"-">>, flight_hours |-> <<"8","0">>, last_maintenance |-> <<"2","0","2","4","-","0","1","-","2","0">>] >>

InitMissions ==
    << [project_id |-> <<"P","R","J","0","0","1">>, project_name |-> <<"S","u","r","v","e","y">>, location |-> <<"P","u","n","e">>, status |-> <<"A","c","t","i","v","e">>, start_date |-> <<"2","0","2","4","-","0","2","-","0","1">>, end_date |-> <<"2","0","2","4","-","0","2","-","1","5">>, required_skills |-> <<"M","a","p","p","i","n","g",","," ","T","h","e","r","m","a","l">>, assigned_pilot |-> <<"-">>, assigned_drone |-> <<"-">>],
       [project_id |-> <<"P","R","J","0","0","2">>, project_name |-> <<"P","a","t","r","o","l">>, location |-> <<"P","u","n","e">>, status |-> <<"A","c","t","i","v","e">>, start_date |-> <<"2","0","2","4","-","0","3","-","0","1">>, end_date |-> <<"2","0","2","4","-","0","3","-","1","0">>, required_skills |-> <<"M","a","p","p","i","n","g">>, assigned_pilot |-> <<"P","0","0","2">>, assigned_drone |-> <<"-">>] >>

NotRun == [raised |-> FALSE, conflicts |-> <<>>, run |-> FALSE]

\* the sheets after a session answered the pilot prompt of mission PRJ001
\* with the text PRJ002: assign_pilot_to_mission wrote them this way
InitSlip == assign_pilot_to_mission(<<"P","R","J","0","0","2">>, s_PRJ001, InitPilots, InitMissions, 0, None)

\* the sheets a session can find when it starts
InitRepos ==
    { [pilots |-> InitPilots, missions |-> InitMissions],
      [pilots |-> InitSlip.res, missions |-> InitSlip.missions] }

Init ==
    /\ \E r \in InitRepos : pilots = r.pilots /\ missions = r.missions
    /\ drones = InitDrones
    /\ ctx = clear
    /\ last = NoReply
    /\ edits = 0
    /\ recs = <<>>
    /\ conflicts = NotRun

\* the store call that fails: 0 for none, and none can fail in a turn that
\* makes no store call
Faults(n, calls) == IF calls THEN 0..n ELSE {0}

\* the text of the exception raised, of no account when no call fails
Errs(f) == IF f = 0 THEN {None} ELSE ErrTexts

\* f ranges over the store calls of the operation the handler runs
Next ==
    \/ \E prompt \in Prompts : FlowCreateType(prompt)
    \/ \E prompt \in Prompts : \E f \in Faults(2, Len(typed[prompt].parts) >= 4) : \E err \in Errs(f) :
          FlowPilotDetails(prompt, f, err)
    \/ \E prompt \in Prompts : \E f \in Faults(2, Len(typed[prompt].parts) >= 4) : \E err \in Errs(f) :
          FlowDroneDetails(prompt, f, err)
    \/ \E prompt \in Prompts : \E f \in Faults(2, Len(typed[prompt].parts) >= 5) : \E err \in Errs(f) :
          FlowMissionDetails(prompt, f, err)
    \/ \E prompt \in Prompts : \E f \in Faults(2, typed[prompt].confirmed) : \E err \in Errs(f) :
          FlowDeleteConfirmation(prompt, f, err)
    \/ \E prompt \in Prompts : FlowFieldToEdit(prompt)
    \/ \E prompt \in Prompts : \E f \in Faults(3, TRUE) : \E err \in Errs(f) :
          FlowNewValue(prompt, f, err)
    \/ \E prompt \in Prompts : FlowAssignmentType(prompt)
    \/ \E prompt \in Prompts : FlowMissionForPilot(prompt)
    \/ \E prompt \in Prompts : \E f \in Faults(7, typed[prompt].parsed.entity_id # None) : \E err \in Errs(f) :
          FlowPilotSelection(prompt, f, err)
    \/ \E prompt \in Prompts : FlowMissionForDrone(prompt)
    \/ \E prompt \in Prompts : \E f \in Faults(7, typed[prompt].parsed.entity_id # None) : \E err \in Errs(f) :
          FlowDroneSelection(prompt, f, err)
    \/ \E prompt \in Prompts : DispatchCreate(prompt)
    \/ \E prompt \in Prompts : DispatchDelete(prompt)
    \/ \E prompt \in Prompts : DispatchEdit(prompt)
    \/ \E prompt \in Prompts : DispatchAssign(prompt)
    \/ \E prompt \in Prompts : DispatchShowAvailable(prompt)
    \/ \E prompt \in Prompts : DispatchShowNonWorking(prompt)
    \/ \E prompt \in Prompts : DispatchFindInfo(prompt)
    \/ \E prompt \in Prompts : DispatchRecommend(prompt)
    \/ \E prompt \in Prompts : \E f \in Faults(3, typed[prompt].parsed.intent = "update_status") : \E err \in Errs(f) :
          DispatchUpdateStatus(prompt, f, err)
    \/ \E prompt \in Prompts : DispatchShowMissions(prompt)
    \/ \E prompt \in Prompts : DispatchShowRoster(prompt)
    \/ \E prompt \in Prompts : DispatchHelp(prompt)

Spec == Init /\ [][Next]_vars

(***************************************************************************)
(* Properties of the dialogue flows (Spec).                                *)
(***************************************************************************)
\* C1: while the context awaits a response, every turn is handled by the
\* handler of the active flow state and the global intent dispatch is not
\* run on it, whatever keywords the text holds
C1_AwaitingRoutesToFlow ==
    [][ctx.awaiting_response => last'.handler = "flow"]_vars

\* the edit flow took the text "Delete P001" as the name of the field to edit
C1_Witness ==
    /\ last.handler = "flow"
    /\ last.action = "awaiting_field_to_edit"
    /\ ctx.current_action = "awaiting_new_value"
    /\ ctx.temp_data["field_name"] = <<"d","e","l","e","t","e"," ","p","0","0","1">>

\* the responses that end a flow: success, store error, validation error,
\* no candidates, cancelled delete
TerminalResponses ==
    {"pilot_added", "pilot_add_failed", "drone_added", "drone_add_failed",
     "mission_created", "mission_create_failed", "missing_information",
     "deleted", "delete_failed", "delete_cancelled", "updated", "update_failed",
     "assignment_complete", "assignment_failed",
     "no_available_pilots", "no_drones_available"}

\* C2: every flow path that ends in success or in a terminal failure leaves
\* awaiting_response = False, current_action = None and temp_data empty
C2_TerminalOutcomeClears ==
    (last.handler = "flow" /\ last.response \in TerminalResponses)
        => /\ ctx.awaiting_response = FALSE
           /\ ctx.current_action = "None"
           /\ ctx.temp_data = EmptyDict

\* an assignment that failed in the store after a write, the context cleared
C2_Witness ==
    /\ last.handler = "flow"
    /\ last.response = "assignment_failed"
    /\ last.writes > 0
    /\ ctx = clear

\* the rows of a sheet with the given id in the id column
rows_with(rows, col, id) == {i \in DOMAIN rows : rows[i][col] = id}

\* C3: the selection step rejects a pilot or drone whose status is not
\* Available, and writes no cell of the pilot, drone or mission records
C3_NonAvailableRejected ==
    [][(/\ ctx.awaiting_response
        /\ \/ /\ ctx.current_action = "awaiting_pilot_selection"
              /\ \E i \in rows_with(pilots, "pilot_id", last'.resource) :
                    pilots[i].status # s_Available
           \/ /\ ctx.current_action = "awaiting_drone_selection"
              /\ \E i \in rows_with(drones, "drone_id", last'.resource) :
                    drones[i].status # s_Available)
       => (/\ last'.response = "assignment_failed"
           /\ last'.writes = 0
           /\ repo' = repo)]_vars

\* C4: after an assignment of R to M that reports success, R.current_assignment
\* = M, R.status = Assigned and M.assigned_pilot (assigned_drone) = R
C4_SuccessWritesBothSides ==
    last.response = "assignment_complete" =>
        IF last.action = "awaiting_pilot_selection"
        THEN /\ \E i \in rows_with(pilots, "pilot_id", last.resource) :
                    pilots[i].current_assignment = last.mission /\ pilots[i].status = s_Assigned
             /\ \E j \in rows_with(missions, "project_id", last.mission) :
                    missions[j].assigned_pilot = last.resource
        ELSE /\ \E i \in rows_with(drones, "drone_id", last.resource) :
                    drones[i].current_assignment = last.mission /\ drones[i].status = s_Assigned
             /\ \E j \in rows_with(missions, "project_id", last.mission) :
                    missions[j].assigned_drone = last.resource

\* both directions of the assignment link agree
Linked ==
    /\ \A i \in DOMAIN pilots, j \in DOMAIN missions :
          (pilots[i].current_assignment = missions[j].project_id)
              <=> (missions[j].assigned_pilot = pilots[i].pilot_id)
    /\ \A i \in DOMAIN drones, j \in DOMAIN missions :
          (drones[i].current_assignment = missions[j].project_id)
              <=> (missions[j].assigned_drone = drones[i].drone_id)

\* C5: from a repository whose link is bidirectional, a successful assignment
\* or reassignment leaves it bidirectional: P.current_assignment = M exactly
\* when M.assigned_pilot = P, and likewise for drones
C5_LinkStaysBidirectional ==
    [][(Linked /\ last'.response = "assignment_complete") => Linked']_vars

fields(prompt) == Len(split_sep(prompt, ","))

\* C12: in each details state of the creation flow a line with fewer fields
\* than required (4 for a pilot or a drone, 5 for a mission) gets the
\* validation message, appends no row and clears the dialogue state
C12_ShortLineAborts ==
    [][(\/ Awaiting("awaiting_pilot_details")
        \/ Awaiting("awaiting_drone_details")
        \/ Awaiting("awaiting_mission_details")) =>
       \A prompt \in Prompts, f \in 0..2, err \in ErrTexts :
          (\/ FlowPilotDetails(prompt, f, err) /\ fields(prompt) < 4
           \/ FlowDroneDetails(prompt, f, err) /\ fields(prompt) < 4
           \/ FlowMissionDetails(prompt, f, err) /\ fields(prompt) < 5)
          => (/\ last'.response = "missing_information"
              /\ repo' = repo
              /\ ctx' = clear)]_vars

\* a four-field line was turned down in the mission details state
C12_Witness ==
    /\ last.action = "awaiting_mission_details"
    /\ last.response = "missing_information"
    /\ last.writes = 0
    /\ ctx = clear
    /\ missions = InitMissions

\* the sheet of an entity type, and the column that holds its ids
sheet_of(entity_type, ps, ds, ms) ==
    IF entity_type = "pilot" THEN ps ELSE IF entity_type = "drone" THEN ds ELSE ms

id_col_of(entity_type) ==
    IF entity_type = "pilot" THEN "pilot_id"
    ELSE IF entity_type = "drone" THEN "drone_id" ELSE "project_id"

\* the rows of a sheet other than those of entity id
rows_without(rows, col, id) == SelectSeq(rows, LAMBDA r : r[col] # id)

\* C13: in the delete confirmation state for entity E, an input containing
\* "yes" or "confirm" that ends in the deleted message has removed E's row
\* and nothing else, any other outcome has removed nothing, and the state
\* is cleared in every case
C13_DeleteRemovesOnlyE ==
    [][\A prompt \in Prompts, f \in 0..2, err \in ErrTexts :
          FlowDeleteConfirmation(prompt, f, err) =>
              LET E == ctx.temp_data["entity_id"]
                  T == ctx.temp_data["entity_type"]
              IN /\ ctx' = clear
                 /\ IF typed[prompt].confirmed /\ last'.response = "deleted"
                    THEN /\ sheet_of(T, pilots', drones', missions')
                              = rows_without(sheet_of(T, pilots, drones, missions), id_col_of(T), E)
                         /\ \A U \in {"pilot", "drone", "mission"} \ {T} :
                               sheet_of(U, pilots', drones', missions')
                                   = sheet_of(U, pilots, drones, missions)
                    ELSE repo' = repo]_vars

\* the column of cols whose header is the text name
col_named(cols, name) == CHOOSE c \in Range(cols) : ColText[c] = name

cols_of(entity_type) ==
    IF entity_type = "pilot" THEN PilotCols
    ELSE IF entity_type = "drone" THEN DroneCols ELSE MissionCols

\* rows with the field of entity id set to value and nothing else changed
rows_with_field(rows, col, id, field, value) ==
    [i \in DOMAIN rows |-> IF rows[i][col] = id THEN [rows[i] EXCEPT ![field] = value] ELSE rows[i]]

\* C14: the edit flow takes two turns: the field step keeps the entity id
\* and type, stores the input as the field name and moves to the new value
\* state without writing; the value step, when it answers updated, has
\* written the input to that field of that entity and nothing else, has
\* written nothing otherwise, and clears the state in both cases
C14_EditWritesOnlyThatField ==
    [][\A prompt \in Prompts, f \in 0..3, err \in ErrTexts :
          /\ FlowFieldToEdit(prompt) =>
                /\ is_awaiting(ctx') /\ ctx'.current_action = "awaiting_new_value"
                /\ ctx'.temp_data["entity_id"] = ctx.temp_data["entity_id"]
                /\ ctx'.temp_data["entity_type"] = ctx.temp_data["entity_type"]
                /\ ctx'.temp_data["field_name"] = lower(strip(prompt))
                /\ repo' = repo
          /\ FlowNewValue(prompt, f, err) =>
                LET E == ctx.temp_data["entity_id"]
                    T == ctx.temp_data["entity_type"]
                    field == ctx.temp_data["field_name"]
                IN /\ ctx' = clear
                   /\ IF last'.response = "updated"
                      THEN /\ sheet_of(T, pilots', drones', missions')
                                = rows_with_field(sheet_of(T, pilots, drones, missions),
                                                  id_col_of(T), E,
                                                  col_named(cols_of(T), field), strip(prompt))
                           /\ \A U \in {"pilot", "drone", "mission"} \ {T} :
                                 sheet_of(U, pilots', drones', missions')
                                     = sheet_of(U, pilots, drones, missions)
                      ELSE repo' = repo]_vars

\* the input carries the id of a mission of the sheet
valid_mission(prompt) ==
    LET parsed == typed[prompt].parsed
    IN /\ parsed.entity_id # None
       /\ parsed.entity_type = "mission"
       /\ rows_with(missions, "project_id", parsed.entity_id) # {}

\* C15: the mission step of an assignment moves to the selection state only
\* on an input that carries a valid mission id; on any other input (no id,
\* an id of another type, an id of no mission) it asks again and stays in
\* the same state
C15_MissionStepNeedsValidId ==
    [][\A prompt \in Prompts :
          (FlowMissionForPilot(prompt) \/ FlowMissionForDrone(prompt)) =>
              /\ ctx'.current_action \in {"awaiting_pilot_selection", "awaiting_drone_selection"}
                    => valid_mission(prompt)
              /\ ~valid_mission(prompt)
                    => ctx' = ctx /\ last'.response = "need_project_id"]_vars

\* the input carries the id of a row of the sheet of the kind selected
valid_resource(prompt, kind) ==
    LET parsed == typed[prompt].parsed
    IN /\ parsed.entity_id # None
       /\ parsed.entity_type = kind
       /\ rows_with(sheet_of(kind, pilots, drones, missions), id_col_of(kind), parsed.entity_id) # {}

\* C16: a selection step writes only on an input that carries a valid id of
\* the kind selected, and then clears the state; on any other input it
\* asks again, writes nothing and leaves the state unchanged
C16_SelectionNeedsValidId ==
    [][\A prompt \in Prompts, f \in 0..7, err \in ErrTexts :
          /\ FlowPilotSelection(prompt, f, err) =>
                IF valid_resource(prompt, "pilot")
                THEN ctx' = clear
                ELSE repo' = repo /\ ctx' = ctx /\ last'.response = "need_pilot_id"
          /\ FlowDroneSelection(prompt, f, err) =>
                IF valid_resource(prompt, "drone")
                THEN ctx' = clear
                ELSE repo' = repo /\ ctx' = ctx /\ last'.response = "need_drone_id"]_vars

\* the lower-cased input contains the word
names(prompt, word) == contains(lower(prompt), word)

\* the state a kind-selecting state moves to for an input, "" for none
next_of_kind(action, prompt) ==
    IF names(prompt, <<"p","i","l","o","t">>)
    THEN IF action = "awaiting_create_type" THEN "awaiting_pilot_details"
         ELSE "awaiting_mission_for_pilot_assignment"
    ELSE IF names(prompt, <<"d","r","o","n","e">>)
    THEN IF action = "awaiting_create_type" THEN "awaiting_drone_details"
         ELSE "awaiting_mission_for_drone_assignment"
    ELSE IF action = "awaiting_create_type" /\ names(prompt, <<"m","i","s","s","i","o","n">>)
    THEN "awaiting_mission_details"
    ELSE ""

\* C17: in the two kind-selecting states an input naming pilot or drone (or
\* mission, for a creation) moves to the next state of that flow; any other
\* input leaves current_action and temp_data as they are; no input writes
C17_KindStepMovesOrStays ==
    [][(Awaiting("awaiting_create_type") \/ Awaiting("awaiting_assignment_type")) =>
       \A prompt \in Prompts :
          (FlowCreateType(prompt) \/ FlowAssignmentType(prompt)) =>
              /\ repo' = repo
              /\ IF next_of_kind(ctx.current_action, prompt) # ""
                 THEN /\ is_awaiting(ctx')
                      /\ ctx'.current_action = next_of_kind(ctx.current_action, prompt)
                 ELSE /\ is_awaiting(ctx')
                      /\ ctx'.current_action = ctx.current_action
                      /\ ctx'.temp_data = ctx.temp_data]_vars

C17_Witness ==
    /\ last.action = "awaiting_assignment_type"
    /\ last.response = "ask_mission_for_pilot"
    /\ ctx.current_action = "awaiting_mission_for_pilot_assignment"
    /\ is_awaiting(ctx)

\* C18: a turn whose operation has one of its store calls fail answers with
\* a failure message, whatever the text of the error, and does not end in
\* an unhandled exception
C18_StoreFailureShownAsFailure ==
    [][\A prompt \in Prompts, err \in ErrTexts :
          /\ \A f \in 1..2 :
                /\ (FlowPilotDetails(prompt, f, err) /\ fields(prompt) >= 4)
                      => last'.response = "pilot_add_failed"
                /\ (FlowDroneDetails(prompt, f, err) /\ fields(prompt) >= 4)
                      => last'.response = "drone_add_failed"
                /\ (FlowMissionDetails(prompt, f, err) /\ fields(prompt) >= 5)
                      => last'.response = "mission_create_failed"
                /\ (FlowDeleteConfirmation(prompt, f, err) /\ typed[prompt].confirmed)
                      => last'.response = "delete_failed"
          /\ \A f \in 1..3 :
                /\ FlowNewValue(prompt, f, err) => last'.response = "update_failed"
                /\ (DispatchUpdateStatus(prompt, f, err) /\ understood(prompt).entity_id # None)
                      => last'.response = "update_failed"
          /\ \A f \in 1..7 :
                /\ (FlowPilotSelection(prompt, f, err) /\ typed[prompt].parsed.entity_id # None)
                      => last'.response = "assignment_failed"
                /\ (FlowDroneSelection(prompt, f, err) /\ typed[prompt].parsed.entity_id # None)
                      => last'.response = "assignment_failed"]_vars

\* the ids the inputs carry
TypedIds == {typed[p].parsed.entity_id : p \in Prompts} \ {None}

\* worksheet.find locates the row of the sheet whose id is id
located(id, sheet, cols, id_col) ==
    find(sheet, cols, id).row - 1 \in rows_with(sheet, id_col, id)

\* the store call f is one of the mission side, or no cell of the missions
\* sheet holds the mission id
mission_side_fails(f, mission_id) ==
    f \in 5..7 \/ (f = 0 /\ find(missions, MissionCols, mission_id) = NoCell)

\* the outcome of an assignment that wrote the resource row and nothing else
kept(r, err, id, id_col, M) ==
    /\ r.result \in {err, err_none_row}
    /\ r.writes = 2
    /\ r.missions = missions
    /\ \A i \in rows_with(r.res, id_col, id) :
          r.res[i].current_assignment = M /\ r.res[i].status = s_Assigned

\* C19: on the sheets of every reachable state, an assignment that fails
\* on the mission side after the two writes on the resource row rolls
\* nothing back: the resource keeps the mission id as current_assignment
\* and the status Assigned, the missions sheet is unchanged, and the
\* operation returns the error text
C19_NoRollback ==
    \A id \in TypedIds, M \in TypedIds, f \in {0, 5, 6, 7}, err \in ErrTexts :
        mission_side_fails(f, M) =>
            /\ located(id, pilots, PilotCols, "pilot_id")
                  => kept(assign_pilot_to_mission(id, M, pilots, missions, f, err),
                          err, id, "pilot_id", M)
            /\ located(id, drones, DroneCols, "drone_id")
                  => kept(assign_drone_to_mission(id, M, drones, missions, f, err),
                          err, id, "drone_id", M)

\* the drone selection turn ended this way: D001 holds PRJ001, no mission
\* names D001
C19_Witness ==
    /\ last.action = "awaiting_drone_selection"
    /\ last.response = "assignment_failed"
    /\ last.writes = 2
    /\ last.resource = s_D001
    /\ last.mission = s_PRJ001
    /\ drones[1].current_assignment = s_PRJ001
    /\ drones[1].status = s_Assigned
    /\ rows_with(missions, "assigned_drone", s_D001) = {}

\* the flow states the turn handler has a branch for
FlowStates ==
    {"awaiting_create_type", "awaiting_pilot_details", "awaiting_drone_details",
     "awaiting_mission_details", "awaiting_delete_confirmation", "awaiting_field_to_edit",
     "awaiting_new_value", "awaiting_assignment_type",
     "awaiting_mission_for_pilot_assignment", "awaiting_pilot_selection",
     "awaiting_mission_for_drone_assignment", "awaiting_drone_selection"}

\* C21: in every reachable state of a session the context awaits a response
\* exactly when current_action is one of the flow states the handler has a
\* branch for; a context that does not await has current_action None and
\* an empty temp_data; and the context holds nothing besides what
\* current_action and temp_data determine
C21_OneFlowAtATime ==
    /\ ctx.awaiting_response \in BOOLEAN
    /\ ctx.awaiting_response <=> ctx.current_action \in FlowStates
    /\ ~ctx.awaiting_response => ctx.current_action = "None" /\ ctx.temp_data = EmptyDict
    /\ ctx = [awaiting_response |-> ctx.current_action # "None",
              current_action |-> ctx.current_action,
              temp_data |-> ctx.temp_data,
              last_query |-> "None"]

\* the edit flow waits for the new value with the three slots filled
C21_Witness ==
    /\ ctx.awaiting_response
    /\ ctx.current_action = "awaiting_new_value"
    /\ DOMAIN ctx.temp_data = {"entity_id", "entity_type", "field_name"}
    /\ C21_OneFlowAtATime

\* the slots the handler of a flow state reads from temp_data
SlotsRead ==
    [a \in FlowStates |->
        IF a \in {"awaiting_delete_confirmation", "awaiting_field_to_edit"} THEN {"entity_id", "entity_type"}
        ELSE IF a = "awaiting_new_value" THEN {"entity_id", "entity_type", "field_name"}
        ELSE IF a \in {"awaiting_pilot_selection", "awaiting_drone_selection"} THEN {"mission_id"}
        ELSE {}]

\* C34: while a flow state is active temp_data holds the slots its handler
\* reads and no other: entity_id and entity_type, a type of record, in
\* the delete confirmation and the field step, these and field_name in the
\* value step, mission_id in the two selection steps
C34_SlotsOfActiveFlow ==
    is_awaiting(ctx) =>
        /\ ctx.current_action \in FlowStates
        /\ DOMAIN ctx.temp_data = SlotsRead[ctx.current_action]
        /\ "entity_type" \in DOMAIN ctx.temp_data
              => ctx.temp_data["entity_type"] \in {"pilot", "drone", "mission"}
        /\ "entity_id" \in DOMAIN ctx.temp_data => ctx.temp_data["entity_id"] # None
        /\ "mission_id" \in DOMAIN ctx.temp_data => ctx.temp_data["mission_id"] # None

\* the pilot selection of an assignment started after an earlier command
\* wrote to a sheet: temp_data holds the mission and nothing else
C34_Witness ==
    /\ ctx.current_action = "awaiting_pilot_selection"
    /\ DOMAIN ctx.temp_data = {"mission_id"}
    /\ edits > 0

\* C35: a creation turn answers "Added Successfully" or "Created
\* Successfully" only when the turn appended a row, whatever the text of
\* the error the store raised
C35_SuccessOnlyAfterAppend ==
    last.response \in {"pilot_added", "drone_added", "mission_created"} => last.writes > 0

\* C38: after a confirmed delete that succeeded no record refers to the
\* deleted id: no pilot and no drone has it as current_assignment, no
\* mission as assigned_pilot or assigned_drone
C38_NoReferenceToDeleted ==
    (last.response = "deleted" /\ last.writes > 0) =>
        /\ \A i \in DOMAIN pilots : pilots[i].current_assignment # last.resource
        /\ \A i \in DOMAIN drones : drones[i].current_assignment # last.resource
        /\ \A i \in DOMAIN missions :
              /\ missions[i].assigned_pilot # last.resource
              /\ missions[i].assigned_drone # last.resource

(***************************************************************************)
(* The ranker on its own: recommend_replacement applied to snapshots drawn *)
(* from small pools of locations, statuses and skill cells.                *)
(***************************************************************************)
\* number of pilots of a drawn snapshot
FleetSize == 3

s_Mumbai == <<"M","u","m","b","a","i">>

s_Delhi == <<"D","e","l","h","i">>

RankSkills == { <<"M","a","p","p","i","n","g",","," ","T","h","e","r","m","a","l",","," ","S","u","r","v","e","y">>, <<"M","a","p","p","i","n","g">>, <<"T","h","e","r","m","a","l"," ","I","m","a","g","i","n","g">> }

RankRequired == { <<"M","a","p","p","i","n","g",","," ","T","h","e","r","m","a","l">>, <<"T","h","e","r","m","a","l">> }

RankNames == <<<<"A","s","h","a">>, <<"R","a","v","i">>, <<"M","e","e","r","a">>, <<"K","a","b","i","r">>>>

s_date == <<"2","0","2","4","-","0","1","-","1","5">>

\* the i-th pilot row of a drawn snapshot
rank_pilot(i, skills, location, status) ==
    [pilot_id |-> s_P \o zfill(str(i), 3), name |-> RankNames[((i - 1) % Len(RankNames)) + 1],
     skills |-> skills, location |-> location, status |-> status,
     current_assignment |-> s_dash, available_from |-> s_date]

RankPilotRows(i) ==
    {rank_pilot(i, sk, loc, st) :
        sk \in RankSkills, loc \in {s_Mumbai, s_Delhi}, st \in {s_Available, s_OnLeave}}

RECURSIVE RankFleets(_)
RankFleets(n) ==
    IF n = 0 THEN {<<>>}
    ELSE {Append(fl, p) : fl \in RankFleets(n - 1), p \in RankPilotRows(n)}

rank_mission(required) ==
    [project_id |-> s_PRJ001, project_name |-> <<"S","u","r","v","e","y">>, location |-> s_Mumbai,
     status |-> s_Active, start_date |-> s_date, end_date |-> s_date,
     required_skills |-> required, assigned_pilot |-> s_dash, assigned_drone |-> s_dash]

\* the mission ids the ranker is asked about: PRJ001 as typed in two ways, and
\* PRJ009, which no snapshot holds
RankAsked == { s_PRJ001, <<" ","p","r","j","0","0","1">>, <<"P","R","J","0","0","9">> }

InitRank ==
    /\ pilots \in RankFleets(FleetSize)
    /\ drones = <<>>
    /\ missions \in {<<rank_mission(req)>> : req \in RankRequired}
    /\ ctx = clear
    /\ last = NoReply
    /\ edits = 0
    /\ recs = <<>>
    /\ conflicts = NotRun

\* one call of recommend_replacement on the snapshot
Recommend(project_id) ==
    /\ project_id \notin DOMAIN recs
    /\ \E r \in recommend_replacement(project_id, pilots, missions) :
          recs' = (project_id :> r) @@ recs
    /\ UNCHANGED <<repo, ctx, last, edits, conflicts>>

NextRank == \E project_id \in RankAsked : Recommend(project_id)

SpecRank == InitRank /\ [][NextRank]_vars

(***************************************************************************)
(* The conflict detector on its own: check_conflicts applied to snapshots  *)
(* of two pilots, one drone and one mission drawn from small pools.        *)
(***************************************************************************)
s_Goa == <<"G","o","a">>

s_Pune == <<"P","u","n","e">>

\* the mission of the drawn snapshots
conflict_mission ==
    [project_id |-> s_PRJ001, project_name |-> <<"S","u","r","v","e","y">>, location |-> s_Pune,
     status |-> s_Active, start_date |-> <<"2","0","2","4","-","0","2","-","0","1">>, end_date |-> <<"2","0","2","4","-","0","2","-","1","5">>,
     required_skills |-> <<"M","a","p","p","i","n","g">>, assigned_pilot |-> s_dash, assigned_drone |-> s_dash]

\* the cells an assignment column holds: the no-assignment marker, an empty
\* cell, or the mission
ConflictAssignments == { s_dash, <<>>, s_PRJ001 }

ConflictPilotRows(i) ==
    {[pilot_id |-> s_P \o zfill(str(i), 3), name |-> RankNames[i], skills |-> sk,
      location |-> s_Pune, status |-> st, current_assignment |-> asg, available_from |-> av] :
        sk \in {<<"M","a","p","p","i","n","g">>, <<"T","h","e","r","m","a","l">>},
        st \in {s_Available, s_Assigned},
        asg \in ConflictAssignments,
        av \in {<<"2","0","2","4","-","0","1","-","1","5">>, <<"2","0","2","4","-","0","3","-","0","1">>}}

ConflictDroneRows ==
    {[drone_id |-> s_D001, model |-> <<"M","a","v","i","c">>, location |-> loc, status |-> st,
      current_assignment |-> asg, flight_hours |-> <<"1","2","0">>, last_maintenance |-> s_date] :
        loc \in {s_Pune, s_Goa},
        st \in {s_Available, s_Maintenance},
        asg \in {s_dash, s_PRJ001}}

InitConflicts ==
    /\ pilots \in {<<p1, p2>> : p1 \in ConflictPilotRows(1), p2 \in ConflictPilotRows(2)}
    /\ drones \in {<<d>> : d \in ConflictDroneRows}
    /\ missions = <<conflict_mission>>
    /\ ctx = clear
    /\ last = NoReply
    /\ edits = 0
    /\ recs = <<>>
    /\ conflicts = NotRun

\* the Conflicts tab: one run of check_conflicts on the snapshot
Detect ==
    /\ ~conflicts.run
    /\ LET c == check_conflicts(pilots, drones, missions)
       IN conflicts' = [raised |-> c.raised, conflicts |-> c.conflicts, run |-> TRUE]
    /\ UNCHANGED <<repo, ctx, last, edits, recs>>

NextConflicts == Detect

SpecConflicts == InitConflicts /\ [][NextConflicts]_vars

(***************************************************************************)
(* Properties of the conflict detector (SpecConflicts).                    *)
(***************************************************************************)
\* the Double-Booking records the run reported for a pilot
double_bookings(pilot) ==
    {k \in DOMAIN conflicts.conflicts :
        /\ conflicts.conflicts[k].type = "Double-Booking"
        /\ conflicts.conflicts[k].entity \in {pilot.name, pilot.pilot_id}}

\* C6: the detector reports one Double-Booking conflict of severity Critical
\* for every pilot with a non-empty current_assignment and status Available,
\* and none for any other pilot
C6_DoubleBookingReported ==
    (conflicts.run /\ ~conflicts.raised) =>
        \A i \in DOMAIN pilots :
            IF has_assignment(pilots[i]) /\ pilots[i].status = s_Available
            THEN /\ Cardinality(double_bookings(pilots[i])) = 1
                 /\ \A k \in double_bookings(pilots[i]) :
                       conflicts.conflicts[k].severity = "Critical"
            ELSE double_bookings(pilots[i]) = {}

(***************************************************************************)
(* Properties of the ranker (SpecRank).                                    *)
(***************************************************************************)
\* the calls made so far that returned a frame
returned_calls == {q \in DOMAIN recs : ~recs[q].raised}

\* the mission rows an asked id resolves to
resolved(q) == rows_with(missions, "project_id", upper(strip(q)))

\* C7: recommend_replacement(M) never returns a pilot whose location differs
\* from M.location or whose status is not Available
C7_OnlyAvailableSameLocation ==
    \A q \in returned_calls : \A k \in DOMAIN recs[q].frame :
        LET row == recs[q].frame[k]
            pilot == pilots[row.idx]
        IN /\ pilot.pilot_id = row.pilot_id
           /\ pilot.status = s_Available
           /\ \A j \in resolved(q) : pilot.location = missions[j].location

\* a call returned a pilot while the snapshot holds a pilot on leave at the
\* mission's location and an Available pilot elsewhere
C7_Witness ==
    \E q \in returned_calls : \E j \in resolved(q) :
        /\ recs[q].frame # <<>>
        /\ \E i \in DOMAIN pilots :
              pilots[i].status # s_Available /\ pilots[i].location = missions[j].location
        /\ \E i \in DOMAIN pilots :
              pilots[i].status = s_Available /\ pilots[i].location # missions[j].location

\* the number of the required skills that are among the skills of the cell
skills_held(skills, required) ==
    Cardinality({k \in DOMAIN split_skills(required) :
                    split_skills(required)[k] \in Range(split_skills(skills))})

\* C8: each returned pilot's score is the number of M's required skills the
\* pilot has, and the pilots come in non-increasing score order
C8_ScoreCountsRequiredSkills ==
    \A q \in returned_calls : \A j \in resolved(q) :
        LET frame == recs[q].frame
        IN /\ \A k \in DOMAIN frame :
                 frame[k].score = skills_held(pilots[frame[k].idx].skills,
                                              missions[j].required_skills)
           /\ \A k \in 1..(Len(frame) - 1) : frame[k].score >= frame[k + 1].score

\* C9: two returned candidates with equal scores keep the relative order they
\* have in the pilots snapshot
C9_StableOrder ==
    \A q \in returned_calls : \A a, b \in DOMAIN recs[q].frame :
        (a < b /\ recs[q].frame[a].score = recs[q].frame[b].score)
            => recs[q].frame[a].idx < recs[q].frame[b].idx

\* the pilots that pass the Available-and-same-location filter of a mission
eligible(j) ==
    {i \in DOMAIN pilots :
        pilots[i].status = s_Available /\ pilots[i].location = missions[j].location}

\* C10: the outcome for an id that does not resolve ("mission not found") is
\* distinct from the outcome for a mission no pilot is eligible for ("no
\* eligible pilots")
C10_DistinctFailures ==
    \A q1, q2 \in DOMAIN recs :
        (/\ resolved(q1) = {}
         /\ resolved(q2) # {}
         /\ \A j \in resolved(q2) : eligible(j) = {})
            => recs[q1] # recs[q2]

(***************************************************************************)
(* Two sessions on the same sheets.  st.session_state holds one context    *)
(* per browser session; every turn of a session reads the sheets again and *)
(* writes them through the same worksheets.  ctx and last hold one entry   *)
(* per session here, and only the pilot assignment flow is followed.       *)
(***************************************************************************)
Sessions == {1, 2}

\* the turns that write, over both sessions
MaxAssignments == 2

\* what the users of the two sessions type
SessionPrompts ==
    { <<"a","s","s","i","g","n">>,
      <<"p","i","l","o","t">>,
      <<"P","R","J","0","0","1">>,
      <<"P","R","J","0","0","2">>,
      <<"P","0","0","1">> }

session_typed ==
    [p \in SessionPrompts |->
        [parsed |-> parse_intent(p),
         pilot |-> contains(lower(p), s_pilot),
         drone |-> contains(lower(p), s_drone)]]

SessionAwaiting(s, action) == is_awaiting(ctx[s]) /\ ctx[s].current_action = action

SessionReply(s, handler, response, writes, resource, mission) ==
    [handler |-> handler, action |-> ctx[s].current_action, response |-> response,
     writes |-> writes, resource |-> resource, mission |-> mission, data |-> EmptyDict]

\* a turn of session s that changes its context to c and answers r
SessionTurn(s, c, r) ==
    /\ ctx' = [ctx EXCEPT ![s] = c]
    /\ last' = [last EXCEPT ![s] = r]

\* a new conversation with the assign intent
SessionDispatchAssign(s, prompt) ==
    /\ ~is_awaiting(ctx[s])
    /\ session_typed[prompt].parsed.intent = "assign"
    /\ SessionTurn(s, set_awaiting(ctx[s], "awaiting_assignment_type", EmptyDict),
                   SessionReply(s, "dispatch", "ask_assignment_type", 0, None, None))
    /\ UNCHANGED <<repo, edits, recs, conflicts>>

\* a new conversation with an intent that starts no flow and writes nothing
SessionDispatchOther(s, prompt) ==
    /\ ~is_awaiting(ctx[s])
    /\ session_typed[prompt].parsed.intent
          \notin {"assign", "create", "delete", "edit", "update_status"}
    /\ SessionTurn(s, ctx[s], SessionReply(s, "dispatch", "read_only", 0, None, None))
    /\ UNCHANGED <<repo, edits, recs, conflicts>>

SessionAssignmentType(s, prompt) ==
    /\ SessionAwaiting(s, "awaiting_assignment_type")
    /\ IF session_typed[prompt].pilot
       THEN SessionTurn(s, set_awaiting(ctx[s], "awaiting_mission_for_pilot_assignment", EmptyDict),
                        SessionReply(s, "flow", "ask_mission_for_pilot", 0, None, None))
       ELSE IF session_typed[prompt].drone
       THEN SessionTurn(s, set_awaiting(ctx[s], "awaiting_mission_for_drone_assignment", EmptyDict),
                        SessionReply(s, "flow", "ask_mission_for_drone", 0, None, None))
       ELSE SessionTurn(s, ctx[s],
                        SessionReply(s, "flow", "ask_assignment_type_again", 0, None, None))
    /\ UNCHANGED <<repo, edits, recs, conflicts>>

\* recs keeps, per session, the frame recommend_replacement last returned to it
SessionMissionForPilot(s, prompt) ==
    /\ SessionAwaiting(s, "awaiting_mission_for_pilot_assignment")
    /\ LET mission_id == session_typed[prompt].parsed.entity_id
           selecting == set_awaiting(ctx[s], "awaiting_pilot_selection",
                                     dict_set(ctx[s].temp_data, "mission_id", mission_id))
       IN IF mission_id # None
          THEN \E r \in recommend_replacement(mission_id, pilots, missions) :
                  /\ recs' = [recs EXCEPT ![s] = r]
                  /\ IF r.raised
                     THEN SessionTurn(s, selecting,
                                      SessionReply(s, "flow", "exception", 0, None, mission_id))
                     ELSE IF r.frame # <<>>
                     THEN SessionTurn(s, selecting,
                                      SessionReply(s, "flow", "pilot_candidates", 0, None, mission_id))
                     ELSE SessionTurn(s, clear,
                                      SessionReply(s, "flow", "no_available_pilots", 0, None, mission_id))
          ELSE /\ SessionTurn(s, ctx[s], SessionReply(s, "flow", "need_project_id", 0, None, None))
               /\ recs' = recs
    /\ UNCHANGED <<repo, edits, conflicts>>

SessionPilotSelection(s, prompt) ==
    /\ SessionAwaiting(s, "awaiting_pilot_selection")
    /\ LET pilot_id == session_typed[prompt].parsed.entity_id
           mission_id == ctx[s].temp_data["mission_id"]
           r == assign_pilot_to_mission(pilot_id, mission_id, pilots, missions, 0, None)
       IN IF pilot_id # None
          THEN /\ pilots' = r.res
               /\ missions' = r.missions
               /\ SessionTurn(s, clear,
                              SessionReply(s, "flow",
                                           IF r.result = PyTrue THEN "assignment_complete"
                                           ELSE "assignment_failed",
                                           r.writes, pilot_id, mission_id))
               /\ edits + (IF r.writes > 0 THEN 1 ELSE 0) <= MaxAssignments
               /\ edits' = edits + (IF r.writes > 0 THEN 1 ELSE 0)
          ELSE /\ UNCHANGED <<pilots, missions, edits>>
               /\ SessionTurn(s, ctx[s], SessionReply(s, "flow", "need_pilot_id", 0, None, None))
    /\ UNCHANGED <<drones, recs, conflicts>>

InitTwo ==
    /\ pilots = InitPilots
    /\ drones = InitDrones
    /\ missions = InitMissions
    /\ ctx = [s \in Sessions |-> clear]
    /\ last = [s \in Sessions |-> NoReply]
    /\ edits = 0
    /\ recs = [s \in Sessions |-> Returned(<<>>)]
    /\ conflicts = NotRun

\* the turns of the two sessions interleave in any order
NextTwo ==
    \E s \in Sessions, prompt \in SessionPrompts :
        \/ SessionDispatchAssign(s, prompt)
        \/ SessionDispatchOther(s, prompt)
        \/ SessionAssignmentType(s, prompt)
        \/ SessionMissionForPilot(s, prompt)
        \/ SessionPilotSelection(s, prompt)

SpecTwo == InitTwo /\ [][NextTwo]_vars

\* recommend_replacement last offered the pilot to session s
offered(s, pilot_id) ==
    ~recs[s].raised /\ \E i \in DOMAIN recs[s].frame : recs[s].frame[i].pilot_id = pilot_id

\* both sessions were offered the same pilot and both ended a selection
\* turn with success for it, for two different missions, and no other turn
\* has written
both_assigned ==
    /\ last[1].response = "assignment_complete"
    /\ last[2].response = "assignment_complete"
    /\ last[1].resource = last[2].resource
    /\ last[1].mission # last[2].mission
    /\ offered(1, last[1].resource)
    /\ offered(2, last[2].resource)
    /\ edits = 2

\* C20: two sessions on the same sheets can both be offered the same
\* Available pilot and both assign it, to different missions, with success
\* reported to both; the sheets then have both missions naming the pilot
\* while the pilot's current_assignment names one of the two only
C20_LostUpdate ==
    both_assigned =>
        LET P == last[1].resource
            M1 == last[1].mission
            M2 == last[2].mission
        IN /\ rows_with(missions, "project_id", M1) # {}
           /\ rows_with(missions, "project_id", M2) # {}
           /\ \A i \in rows_with(missions, "project_id", M1) \cup rows_with(missions, "project_id", M2) :
                 missions[i].assigned_pilot = P
           /\ rows_with(pilots, "pilot_id", P) # {}
           /\ \A i \in rows_with(pilots, "pilot_id", P) :
                 /\ pilots[i].current_assignment \in {M1, M2}
                 /\ pilots[i].status = s_Assigned

\* session 2 wrote last: both missions name P001, P001 names PRJ002 only
C20_Witness ==
    /\ both_assigned
    /\ last[1].resource = s_P001
    /\ last[1].mission = s_PRJ001
    /\ last[2].mission = <<"P","R","J","0","0","2">>
    /\ missions[1].assigned_pilot = s_P001
    /\ missions[2].assigned_pilot = s_P001
    /\ pilots[1].current_assignment = <<"P","R","J","0","0","2">>

(***************************************************************************)
(* The add operations on their own: add_pilot, add_drone and add_mission   *)
(* applied to sheets whose id column is drawn from a pool of ids.          *)
(***************************************************************************)
\* the rows of the sheet whose ids are drawn
MaxIds == 2

\* the adds of one run
MaxAdds == 2

Kinds == {"pilot", "drone", "mission"}

prefix_of(kind) == IF kind = "pilot" THEN s_P ELSE IF kind = "drone" THEN s_D ELSE s_PRJ

\* ids in and out of sequence, of two widths, the last of two digits, one
\* with a suffix that is no number, one of another prefix
IdPool(kind) ==
    { prefix_of(kind) \o <<"0","0","1">>,
      prefix_of(kind) \o <<"0","0","7">>,
      prefix_of(kind) \o <<"0","1","0">>,
      prefix_of(kind) \o <<"0","9","9">>,
      prefix_of(kind) \o <<"1","2">>,
      prefix_of(kind) \o <<"0","0","A">>,
      <<"X","0","0","1">> }

IdLists(kind, n) == UNION {[1..k -> IdPool(kind)] : k \in 0..n}

\* a sheet of the kind with the ids of the list
id_rows(kind, ids) ==
    [i \in DOMAIN ids |->
        IF kind = "pilot" THEN [InitPilots[1] EXCEPT !.pilot_id = ids[i]]
        ELSE IF kind = "drone" THEN [InitDrones[1] EXCEPT !.drone_id = ids[i]]
        ELSE [InitMissions[1] EXCEPT !.project_id = ids[i]]]

\* the dict an add is called with
new_data(kind) ==
    IF kind = "pilot"
    THEN [name |-> <<"R","a","v","i">>, location |-> <<"G","o","a">>, skills |-> <<"M","a","p","p","i","n","g">>,
          available_from |-> <<"2","0","2","4","-","0","3","-","0","1">>, status |-> s_Available,
          current_assignment |-> s_dash]
    ELSE IF kind = "drone"
    THEN [model |-> <<"M","a","v","i","c">>, location |-> <<"G","o","a">>, flight_hours |-> <<"1","0">>,
          last_maintenance |-> <<"2","0","2","4","-","0","1","-","1","0">>, status |-> s_Available,
          current_assignment |-> s_dash]
    ELSE [project_name |-> <<"S","c","a","n">>, location |-> <<"G","o","a">>,
          start_date |-> <<"2","0","2","4","-","0","2","-","0","1">>,
          end_date |-> <<"2","0","2","4","-","0","2","-","1","5">>,
          required_skills |-> <<"M","a","p","p","i","n","g">>, status |-> s_Active,
          assigned_pilot |-> s_dash, assigned_drone |-> s_dash]

InitIds ==
    /\ \E kind \in Kinds : \E ids \in IdLists(kind, MaxIds) :
          /\ pilots = IF kind = "pilot" THEN id_rows(kind, ids) ELSE InitPilots
          /\ drones = IF kind = "drone" THEN id_rows(kind, ids) ELSE InitDrones
          /\ missions = IF kind = "mission" THEN id_rows(kind, ids) ELSE InitMissions
    /\ ctx = clear
    /\ last = NoReply
    /\ edits = 0
    /\ recs = <<>>
    /\ conflicts = NotRun

\* one call of an add operation; last keeps the kind, the value returned
\* and the number of rows appended
Add(kind, f, err) ==
    /\ edits < MaxAdds
    /\ edits' = edits + 1
    /\ LET r == IF kind = "pilot" THEN add_pilot(new_data(kind), pilots, pilots, f, err)
                ELSE IF kind = "drone" THEN add_drone(new_data(kind), drones, drones, f, err)
                ELSE add_mission(new_data(kind), missions, missions, f, err)
       IN /\ pilots' = IF kind = "pilot" THEN r.rows ELSE pilots
          /\ drones' = IF kind = "drone" THEN r.rows ELSE drones
          /\ missions' = IF kind = "mission" THEN r.rows ELSE missions
          /\ last' = [NoReply EXCEPT !.handler = kind, !.response = "add_returned",
                                     !.writes = r.writes, !.resource = r.result]
    /\ UNCHANGED <<ctx, recs, conflicts>>

NextIds == \E kind \in Kinds, f \in 0..1 : \E err \in Errs(f) : Add(kind, f, err)

SpecIds == InitIds /\ [][NextIds]_vars

\* the number after the prefix of an id of the kind, -1 for an id of
\* another prefix or with a suffix that is no number
suffix_number(kind, id) ==
    IF startswith(id, prefix_of(kind))
    THEN int(SubSeq(id, Len(prefix_of(kind)) + 1, Len(id)))
    ELSE -1

\* C22: an add that appended a row gave it the next id of its prefix: the
\* prefix followed by one more than the largest numeric suffix among the
\* ids of that prefix in the snapshot, number 1 for an empty collection,
\* and an id no row of the snapshot has
C22_NextSequentialId ==
    (last.response = "add_returned" /\ last.writes > 0) =>
        LET kind == last.handler
            sheet == sheet_of(kind, pilots, drones, missions)
            col == id_col_of(kind)
            new_id == sheet[Len(sheet)][col]
            snapshot == SubSeq(sheet, 1, Len(sheet) - 1)
            numbers == {suffix_number(kind, snapshot[i][col]) : i \in DOMAIN snapshot}
        IN /\ last.resource = new_id
           /\ startswith(new_id, prefix_of(kind))
           /\ suffix_number(kind, new_id) = IF snapshot = <<>> THEN 1 ELSE Max(numbers) + 1
           /\ \A i \in DOMAIN snapshot : snapshot[i][col] # new_id

\* P011 was appended to a sheet that held P010 and P007, in that order
C22_Witness ==
    /\ last.response = "add_returned"
    /\ last.handler = "pilot"
    /\ last.writes > 0
    /\ Len(pilots) = 3
    /\ pilots[1].pilot_id = <<"P","0","1","0">>
    /\ pilots[2].pilot_id = <<"P","0","0","7">>
    /\ pilots[3].pilot_id = <<"P","0","1","1">>

(***************************************************************************)
(* The extractor on its own: parse_intent and the name lookup of a new     *)
(* conversation applied to texts drawn from three families.                *)
(***************************************************************************)
\* the text with the letters in the cases the mask gives
case_mix(t, mask) == [i \in DOMAIN t |-> IF mask[i] THEN upper_char(t[i]) ELSE lower_char(t[i])]

\* what follows the command: nothing, or one punctuation mark
Trails == { <<>>, <<"?">>, <<".">>, <<"!">>, <<",">> }

\* "Delete P001" in every casing, followed by a trail
CaseTexts ==
    LET base == <<"d","e","l","e","t","e"," ","p","0","0","1">>
    IN { case_mix(base, mask) \o trail : mask \in [DOMAIN base -> BOOLEAN], trail \in Trails }

\* the keywords of the groups of the priority chain, and the word
\* maintenance
Keywords ==
    Range(kw_delete) \cup Range(kw_edit) \cup Range(kw_create) \cup Range(kw_show_non_working)
    \cup Range(kw_assign) \cup Range(kw_show_available) \cup Range(kw_roster_drones)
    \cup Range(kw_roster_pilots) \cup Range(kw_show_missions) \cup Range(kw_find_info)
    \cup { lower(s_Maintenance) }

\* one keyword, or two with a space between
IntentTexts == Keywords \cup { a \o <<" ">> \o b : a, b \in Keywords }

\* id tokens of the three types in both cases, words that are no id, and
\* the names and models of the roster
Tokens ==
    { s_P001, <<"p","0","0","2">>, s_PRJ001, <<"p","r","j","0","0","2">>, s_D001, <<"d","0","0","2">>,
      <<"s","h","o","w">>, <<"a","s","h","a">>, <<"R","a","v","i">>, <<"m","a","v","i","c">> }

\* one to three tokens with spaces between
EntityTexts ==
    Tokens \cup { a \o <<" ">> \o b : a, b \in Tokens }
           \cup { a \o <<" ">> \o b \o <<" ">> \o c : a, b, c \in Tokens }

ParseTexts == CaseTexts \cup IntentTexts \cup EntityTexts

InitParse ==
    /\ pilots = InitPilots
    /\ drones = InitDrones
    /\ missions = InitMissions
    /\ ctx = clear
    /\ last = NoReply
    /\ edits = 0
    /\ recs \in {[text |-> prompt, parsed |-> <<>>] : prompt \in ParseTexts}
    /\ conflicts = NotRun

\* one new conversation turn up to the intent handlers: recs keeps the
\* text typed, what parse_intent returned, what it returns when called
\* again, and the entity after the name lookup
Parse ==
    /\ recs.parsed = <<>>
    /\ recs' = [text |-> recs.text, parsed |-> parse_intent(recs.text),
                again |-> parse_intent(recs.text),
                entity |-> name_lookup(parse_intent(recs.text), pilots, drones)]
    /\ UNCHANGED <<repo, ctx, last, edits, conflicts>>

NextParse == Parse

SpecParse == InitParse /\ [][NextParse]_vars

\* C23: for "Delete P001" in any casing, followed by no or one punctuation
\* mark, the extractor returns intent delete, entity id P001 and entity type
\* pilot, and the same result each time
C23_DeleteP001AnyVariant ==
    (recs.parsed # <<>> /\ recs.text \in CaseTexts) =>
        /\ recs.parsed.intent = "delete"
        /\ recs.parsed.entity_id = s_P001
        /\ recs.parsed.entity_type = "pilot"
        /\ recs.again = recs.parsed

\* the keyword groups in the order of the priority chain, the word
\* maintenance among the negative-availability keywords
OrderedGroups ==
    << <<"delete", Range(kw_delete)>>,
       <<"edit", Range(kw_edit)>>,
       <<"create", Range(kw_create)>>,
       <<"show_non_working", Range(kw_show_non_working) \cup {lower(s_Maintenance)}>>,
       <<"assign", Range(kw_assign)>>,
       <<"show_available", Range(kw_show_available)>>,
       <<"show_roster", Range(kw_roster_drones) \cup Range(kw_roster_pilots)>>,
       <<"show_missions", Range(kw_show_missions)>>,
       <<"find_info", Range(kw_find_info)>> >>

\* the groups with a keyword in the text
groups_in(t) == {g \in DOMAIN OrderedGroups : \E k \in OrderedGroups[g][2] : contains(t, k)}

\* C24: the intent returned is that of the earliest group, in the order
\* delete, edit, create, negative availability, assign, availability query,
\* roster listing, mission listing, generic lookup, that has a keyword in
\* the lower-cased text
C24_FirstGroupWins ==
    (recs.parsed # <<>> /\ recs.text \in IntentTexts) =>
        LET present == groups_in(lower(recs.text))
        IN present # {} =>
              recs.parsed.intent = OrderedGroups[CHOOSE g \in present : \A h \in present : g <= h][1]

\* u is the prefix followed by digits only
digits_after(u, prefix) ==
    /\ startswith(u, prefix)
    /\ Len(u) > Len(prefix)
    /\ \A i \in (Len(prefix) + 1)..Len(u) : isdigit(u[i])

\* the type whose id pattern the word has, "None" for a word that is no id
id_type(w) ==
    IF digits_after(upper(w), s_PRJ) THEN "mission"
    ELSE IF digits_after(upper(w), s_P0) THEN "pilot"
    ELSE IF digits_after(upper(w), s_D0) THEN "drone"
    ELSE "None"

\* C25: the entity a new conversation works on is the first id token of the
\* text from the left, whatever its type and whatever ids follow it, also
\* when the text holds a pilot name or a drone model of the roster; a text
\* without an id token leaves the extractor without an entity
C25_FirstTokenWins ==
    (recs.parsed # <<>> /\ recs.text \in EntityTexts) =>
        LET words == split(recs.text)
            ids == {i \in DOMAIN words : id_type(words[i]) # "None"}
            first == CHOOSE i \in ids : \A j \in ids : i <= j
        IN IF ids = {}
           THEN recs.parsed.entity_id = None
           ELSE /\ recs.parsed.entity_id = upper(words[first])
                /\ recs.parsed.entity_type = id_type(words[first])
                /\ recs.entity = [entity_id |-> upper(words[first]), entity_type |-> id_type(words[first])]

\* "asha p002 PRJ001": the pilot id is returned, not the mission id after
\* it and not the pilot the name before it belongs to
C25_Witness ==
    /\ recs.parsed # <<>>
    /\ recs.text = <<"a","s","h","a"," ","p","0","0","2"," ","P","R","J","0","0","1">>
    /\ recs.entity = [entity_id |-> <<"P","0","0","2">>, entity_type |-> "pilot"]

(***************************************************************************)
(* Status-update commands on their own: new conversation turns on the      *)
(* texts of StatusPrompts.                                                 *)
(***************************************************************************)
\* the sheets with every assignment recorded on both sides
InitStatus ==
    /\ pilots = InitPilots
    /\ drones = InitDrones
    /\ missions = InitMissions
    /\ ctx = clear
    /\ last = NoReply
    /\ edits = 0
    /\ recs = <<>>
    /\ conflicts = NotRun

\* a new conversation turn on a status-update command: the handler of the
\* intent parse_intent detects in it
StatusUpdate(prompt, f, err) == DispatchUpdateStatus(prompt, f, err)

StatusAssign(prompt) == DispatchAssign(prompt)

NextStatus ==
    \/ \E prompt \in StatusPrompts : \E f \in Faults(3, TRUE) : \E err \in Errs(f) :
          StatusUpdate(prompt, f, err)
    \/ \E prompt \in StatusPrompts : StatusAssign(prompt)

SpecStatus == InitStatus /\ [][NextStatus]_vars

\* the status a keyword of the command stands for, in the order tested
StatusWords ==
    << <<s_leave, s_OnLeave>>, <<s_mainten, s_Maintenance>>, <<s_assign, s_Assigned>>,
       <<s_active, s_Active>>, <<s_complete, s_Completed>> >>

target_status(text) ==
    LET hits == {i \in DOMAIN StatusWords : contains(lower(text), StatusWords[i][1])}
    IN IF hits = {} THEN s_Available
       ELSE StatusWords[CHOOSE i \in hits : \A j \in hits : i <= j][2]

\* the status of the entity with the id, None when no sheet holds it
status_of(id, ps, ds, ms) ==
    IF \E i \in DOMAIN ps : ps[i].pilot_id = id
    THEN ps[CHOOSE i \in DOMAIN ps : ps[i].pilot_id = id].status
    ELSE IF \E i \in DOMAIN ds : ds[i].drone_id = id
    THEN ds[CHOOSE i \in DOMAIN ds : ds[i].drone_id = id].status
    ELSE IF \E i \in DOMAIN ms : ms[i].project_id = id
    THEN ms[CHOOSE i \in DOMAIN ms : ms[i].project_id = id].status
    ELSE None

\* C26: a turn on a status-update command that names an existing entity,
\* with the store answering, leaves the entity with the status its keyword
\* stands for: leave On Leave, mainten Maintenance, assign Assigned, active
\* Active, complete Completed, and Available without a keyword
C26_KeywordChoosesStatus ==
    [][\A c \in StatusCommands :
          (/\ status_of(c.id, pilots, drones, missions) # None
           /\ StatusUpdate(text_of(c), 0, None) \/ StatusAssign(text_of(c)))
          => status_of(c.id, pilots', drones', missions') = target_status(text_of(c))]_vars

(***************************************************************************)
(* The conflict detector run twice on one snapshot: pilots and a drone     *)
(* whose skills, location and assignment are drawn, with a mission sheet   *)
(* that holds one mission or none, in a session that may be in a flow.     *)
(***************************************************************************)
\* the mission of the snapshot: two required skills, at Pune
snapshot_mission == [conflict_mission EXCEPT !.required_skills = <<"M","a","p","p","i","n","g",","," ","T","h","e","r","m","a","l">>]

\* an assignment cell: the marker, an empty cell, the mission, or a mission
\* no sheet holds
SnapshotAssignments == { s_dash, <<>>, s_PRJ001, <<"P","R","J","0","0","9">> }

SnapshotPilotRows ==
    {[pilot_id |-> s_P001, name |-> <<"A","s","h","a">>, skills |-> sk, location |-> loc,
      status |-> s_Assigned, current_assignment |-> asg, available_from |-> av] :
        sk \in { <<"M","a","p","p","i","n","g",","," ","T","h","e","r","m","a","l">>,
                 <<"M","a","p","p","i","n","g">>,
                 <<"S","u","r","v","e","y">>,
                 <<"M","a","p","p","i","n","g",","," ","T","h","e","r","m","a","l"," ","I","m","a","g","i","n","g">> },
        loc \in {s_Pune, s_Goa},
        asg \in SnapshotAssignments,
        av \in {<<"2","0","2","4","-","0","1","-","1","5">>, <<"2","0","2","4","-","0","2","-","1","5">>,
                <<"2","0","2","4","-","0","3","-","0","1">>}}

\* the second pilot: free, or on the mission with every skill and in time
SnapshotSecondPilots ==
    {[pilot_id |-> <<"P","0","0","2">>, name |-> <<"R","a","v","i">>,
      skills |-> <<"M","a","p","p","i","n","g",","," ","T","h","e","r","m","a","l">>, location |-> s_Pune,
      status |-> s_Assigned, current_assignment |-> asg,
      available_from |-> <<"2","0","2","4","-","0","1","-","1","5">>] : asg \in {s_dash, s_PRJ001}}

SnapshotDroneRows ==
    {[drone_id |-> s_D001, model |-> <<"M","a","v","i","c">>, location |-> loc, status |-> st,
      current_assignment |-> asg, flight_hours |-> <<"1","2","0">>, last_maintenance |-> s_date] :
        loc \in {s_Pune, s_Goa},
        st \in {s_Available, s_Maintenance},
        asg \in SnapshotAssignments}

InitSnapshots ==
    /\ pilots \in {<<p1, p2>> : p1 \in SnapshotPilotRows, p2 \in SnapshotSecondPilots}
    /\ drones \in {<<d>> : d \in SnapshotDroneRows}
    /\ missions \in { <<snapshot_mission>>, <<>> }
    /\ ctx \in { clear, set_awaiting(clear, "awaiting_create_type", EmptyDict) }
    /\ last = NoReply
    /\ edits = 0
    /\ recs = <<>>
    /\ conflicts = NotRun

\* a run that also ends the flow of the session
RunClearing ==
    /\ ~conflicts.run
    /\ LET c == check_conflicts(pilots, drones, missions)
       IN conflicts' = [raised |-> c.raised, conflicts |-> c.conflicts, run |-> TRUE]
    /\ ctx' = clear
    /\ UNCHANGED <<repo, last, edits, recs>>

\* the Conflicts tab of one rerun of the script
Run ==
    /\ ~conflicts.run
    /\ LET c == check_conflicts(pilots, drones, missions)
       IN conflicts' = [raised |-> c.raised, conflicts |-> c.conflicts, run |-> TRUE]
    /\ UNCHANGED <<repo, ctx, last, edits, recs>>

\* the Conflicts tab of the next rerun, on the same snapshot; recs keeps
\* what the run before returned
Rerun ==
    /\ conflicts.run
    /\ recs = <<>>
    /\ LET c == check_conflicts(pilots, drones, missions)
       IN conflicts' = [raised |-> c.raised, conflicts |-> c.conflicts, run |-> TRUE]
    /\ recs' = <<conflicts>>
    /\ UNCHANGED <<repo, ctx, last, edits>>

NextSnapshots == Run \/ Rerun

SpecSnapshots == InitSnapshots /\ [][NextSnapshots]_vars

mission_of(row, missions_df) ==
    IF has_assignment(row)
    THEN SelectSeq(missions_df, LAMBDA m : m.project_id = row.current_assignment)
    ELSE <<>>

\* the required skills that are no member of the pilot's skill list
skills_lacking(pilot, mission) ==
    SelectSeq(split_skills(mission.required_skills),
              LAMBDA s : s \notin Range(split_skills(pilot.skills)))

\* the records of a type the run reported for an entity
records_of(type, entity) ==
    SelectSeq(conflicts.conflicts, LAMBDA c : c.type = type /\ c.entity = entity)

\* C28: the run reports a Skill Mismatch for a pilot exactly when the pilot
\* is assigned to a mission of the sheet and lacks one of its required
\* skills, the record lists the skills lacking, and a date conflict of the
\* same pilot is reported beside it
C28_SkillMismatchExact ==
    (conflicts.run /\ ~conflicts.raised) =>
        \A i \in DOMAIN pilots :
            LET m == mission_of(pilots[i], missions)
                lacking == IF m = <<>> THEN <<>> ELSE skills_lacking(pilots[i], m[1])
                reported == records_of("Skill Mismatch", pilots[i].name)
            IN /\ IF lacking = <<>> THEN reported = <<>>
                  ELSE Len(reported) = 1 /\ reported[1].detail[1] = lacking
               /\ (m # <<>> /\ later_than(to_datetime(pilots[i].available_from), to_datetime(m[1].end_date)))
                      => Len(records_of("Pilot Date Overlap", pilots[i].name)) = 1

\* the Location Mismatch records the run reported for an entity known by
\* one of the names
location_records(entities) ==
    SelectSeq(conflicts.conflicts,
              LAMBDA c : /\ c.type \in {"Location Mismatch", "Pilot Location Mismatch", "Drone Location Mismatch"}
                         /\ c.entity \in entities)

\* the row is assigned to a mission of the sheet that is somewhere else
misplaced(row, missions_df) ==
    LET m == mission_of(row, missions_df)
    IN m # <<>> /\ row.location # m[1].location

\* C29: the run reports a Location Mismatch for every pilot and every drone
\* assigned to a mission of the sheet at another location, and for no other
\* pilot or drone
C29_LocationMismatchBothKinds ==
    (conflicts.run /\ ~conflicts.raised) =>
        /\ \A i \in DOMAIN pilots :
              misplaced(pilots[i], missions)
                  <=> location_records({pilots[i].name, pilots[i].pilot_id}) # <<>>
        /\ \A i \in DOMAIN drones :
              misplaced(drones[i], missions)
                  <=> location_records({drones[i].drone_id, drones[i].model}) # <<>>

\* the equipment records the run reported for a drone
maintenance_records(drone) == records_of("Drone in Maintenance", drone.drone_id)

\* C30: a run of the detector reports an equipment conflict for a drone
\* exactly when the drone has a live assignment and status Maintenance,
\* whether or not a mission of the sheet has the id it is assigned to
C30_MaintenanceWithAssignment ==
    conflicts.run =>
        \A i \in DOMAIN drones :
            (has_assignment(drones[i]) /\ drones[i].status = s_Maintenance)
                <=> Len(maintenance_records(drones[i])) = 1

\* C31: a run of the detector reports a date conflict for a pilot exactly
\* when the pilot is assigned to a mission of the sheet and its
\* available_from is a later day than the mission's end_date; a pilot
\* available on the end date or before it gets none
C31_DateConflictStrictlyAfter ==
    conflicts.run =>
        \A i \in DOMAIN pilots :
            LET m == mission_of(pilots[i], missions)
                reported == records_of("Pilot Date Overlap", pilots[i].name)
            IN IF m # <<>> /\ to_datetime(pilots[i].available_from) > to_datetime(m[1].end_date)
               THEN Len(reported) = 1
               ELSE reported = <<>>

\* the pilot available from the day the mission ends, with all skills, got
\* no record while the mission is in the sheet
C31_Witness ==
    /\ conflicts.run
    /\ ~conflicts.raised
    /\ pilots[1].current_assignment = s_PRJ001
    /\ pilots[1].available_from = missions[1].end_date
    /\ records_of("Pilot Date Overlap", pilots[1].name) = <<>>
    /\ pilots[2].current_assignment = s_PRJ001

\* the severities fixed for the kinds of conflict
SeverityOf ==
    [type \in {"Double-Booking", "Pilot Date Overlap", "Skill Mismatch", "Location Mismatch",
               "Pilot Location Mismatch", "Drone Location Mismatch", "Drone in Maintenance"} |->
        IF type = "Double-Booking" THEN {"Critical"}
        ELSE IF type = "Pilot Date Overlap" THEN {"Critical", "High"}
        ELSE IF type = "Skill Mismatch" THEN {"High"}
        ELSE IF type = "Drone in Maintenance" THEN {"Critical"}
        ELSE {"Medium"}]

\* C32: every record a run of the detector returns has the severity fixed
\* for its kind: Double-Booking Critical, date conflict Critical or High,
\* Skill Mismatch High, Location Mismatch Medium, drone in Maintenance
\* Critical
C32_SeverityByKind ==
    \A k \in DOMAIN conflicts.conflicts :
        /\ conflicts.conflicts[k].type \in DOMAIN SeverityOf
        /\ conflicts.conflicts[k].severity \in SeverityOf[conflicts.conflicts[k].type]

\* the statuses of each type of record
PilotStatuses == { s_Available, s_Assigned, s_OnLeave, <<"U","n","a","v","a","i","l","a","b","l","e">> }

DroneStatuses == { s_Available, s_Assigned, s_Maintenance }

MissionStatuses == { s_Active, s_Completed, <<"P","e","n","d","i","n","g">> }

\* C33: after any sequence of commands every pilot has a pilot status,
\* every drone a drone status and every mission a mission status
C33_StatusWithinEnum ==
    /\ \A i \in DOMAIN pilots : pilots[i].status \in PilotStatuses
    /\ \A i \in DOMAIN drones : drones[i].status \in DroneStatuses
    /\ \A i \in DOMAIN missions : missions[i].status \in MissionStatuses

(***************************************************************************)
(* Edit flows on their own: the turns of EditPrompts from the consistent   *)
(* sheets.                                                                 *)
(***************************************************************************)
NextEdit ==
    \/ \E prompt \in EditPrompts : DispatchEdit(prompt)
    \/ \E prompt \in EditPrompts : FlowFieldToEdit(prompt)
    \/ \E prompt \in EditPrompts : \E f \in Faults(3, TRUE) : \E err \in Errs(f) : FlowNewValue(prompt, f, err)
    \/ \E prompt \in EditPrompts : DispatchHelp(prompt)

SpecEdit == InitStatus /\ [][NextEdit]_vars

\* C36: after any sequence of accepted commands no two pilots share a
\* pilot_id, no two drones a drone_id and no two missions a project_id
C36_IdsUnique ==
    /\ \A i, j \in DOMAIN pilots : pilots[i].pilot_id = pilots[j].pilot_id => i = j
    /\ \A i, j \in DOMAIN drones : drones[i].drone_id = drones[j].drone_id => i = j
    /\ \A i, j \in DOMAIN missions : missions[i].project_id = missions[j].project_id => i = j

\* C37: the id an add operation assigned is recognised by the extractor:
\* a command with the id as a token yields that id and the type of the
\* record created, also when the number of the id is 100 or more
C37_AssignedIdRecognised ==
    (last.response = "add_returned" /\ last.writes > 0) =>
        LET parsed == parse_intent(<<"f","i","n","d"," ">> \o last.resource)
        IN /\ parsed.entity_id = last.resource
           /\ parsed.entity_type = last.handler

(***************************************************************************)
(* Creation flows on their own: the turns of CreatePrompts from the        *)
(* consistent sheets.                                                      *)
(***************************************************************************)
NextCreate ==
    \/ \E prompt \in CreatePrompts : DispatchCreate(prompt)
    \/ \E prompt \in CreatePrompts : FlowCreateType(prompt)
    \/ \E prompt \in CreatePrompts : \E f \in Faults(2, Len(typed[prompt].parts) >= 4) : \E err \in Errs(f) :
          FlowPilotDetails(prompt, f, err)
    \/ \E prompt \in CreatePrompts : \E f \in Faults(2, Len(typed[prompt].parts) >= 4) : \E err \in Errs(f) :
          FlowDroneDetails(prompt, f, err)
    \/ \E prompt \in CreatePrompts : \E f \in Faults(2, Len(typed[prompt].parts) >= 5) : \E err \in Errs(f) :
          FlowMissionDetails(prompt, f, err)
    \/ \E prompt \in CreatePrompts : DispatchHelp(prompt)

SpecCreate == InitStatus /\ [][NextCreate]_vars

\* C39: the example line of the pilot flow is stored with both skills in
\* the skills cell and the date in available_from, and the example line of
\* the mission flow with both skills in required_skills
C39_ExampleLineStored ==
    /\ (last.response = "pilot_added" /\ last.writes > 0 /\ last.data.name = <<"J","o","h","n"," ","D","o","e">>) =>
          /\ split_skills(pilots[Len(pilots)].skills) = << <<"M","a","p","p","i","n","g">>, <<"I","n","s","p","e","c","t","i","o","n">> >>
          /\ pilots[Len(pilots)].available_from = <<"2","0","2","4","-","0","1","-","1","5">>
    /\ (last.response = "mission_created" /\ last.writes > 0 /\ last.data.project_name = <<"P","i","p","e","l","i","n","e"," ","S","u","r","v","e","y">>) =>
          split_skills(missions[Len(missions)].required_skills) = << <<"M","a","p","p","i","n","g">>, <<"T","h","e","r","m","a","l">> >>

(***************************************************************************)
(* Two sessions creating pilots on the same sheets.  A turn of a session   *)
(* is a script run: load_data reads the sheets into the frames of the run, *)
(* then the handler of the turn works on these frames and writes through   *)
(* the worksheet.  The sheets have no lock, so a step of the other session *)
(* can fall between the read and the append.  recs holds, per session, the *)
(* position in the run and the pilots frame it has read.                   *)
(***************************************************************************)
\* the appends of both sessions together
MaxCreates == 2

SharedPrompts ==
    { <<"a","d","d">>, s_pilot,
      <<"J","o","h","n"," ","D","o","e",","," ","M","u","m","b","a","i",","," ","M","a","p","p","i","n","g",",","I","n","s","p","e","c","t","i","o","n",","," ","2","0","2","4","-","0","1","-","1","5">>,
      <<"D","J","I"," ","P","h","a","n","t","o","m"," ","5",","," ","D","e","l","h","i",","," ","1","2","0",","," ","2","0","2","4","-","0","1","-","1","0">> }

NotLoaded == [pc |-> "idle", pilots_df |-> <<>>]

Loaded(s) == recs[s].pc = "loaded"

\* the run of session s ends: its context becomes c and its answer r
SharedTurn(s, c, r) ==
    /\ ctx' = [ctx EXCEPT ![s] = c]
    /\ last' = [last EXCEPT ![s] = r]
    /\ recs' = [recs EXCEPT ![s] = NotLoaded]

\* the run of a turn of session s starts: load_data reads the Pilots sheet
SharedLoad(s) ==
    /\ recs[s].pc = "idle"
    /\ recs' = [recs EXCEPT ![s] = [pc |-> "loaded", pilots_df |-> pilots]]
    /\ UNCHANGED <<repo, ctx, last, edits, conflicts>>

SharedCreate(s, prompt) ==
    /\ Loaded(s)
    /\ ~is_awaiting(ctx[s])
    /\ typed[prompt].parsed.intent = "create"
    /\ SharedTurn(s, set_awaiting(ctx[s], "awaiting_create_type", EmptyDict),
                  SessionReply(s, "dispatch", "ask_create_type", 0, None, None))
    /\ UNCHANGED <<repo, edits, conflicts>>

SharedHelp(s, prompt) ==
    /\ Loaded(s)
    /\ ~is_awaiting(ctx[s])
    /\ typed[prompt].parsed.intent = "None"
    /\ SharedTurn(s, ctx[s], SessionReply(s, "dispatch", "help", 0, None, None))
    /\ UNCHANGED <<repo, edits, conflicts>>

SharedCreateType(s, prompt) ==
    /\ Loaded(s)
    /\ SessionAwaiting(s, "awaiting_create_type")
    /\ IF typed[prompt].pilot
       THEN SharedTurn(s, set_awaiting(ctx[s], "awaiting_pilot_details", EmptyDict),
                       SessionReply(s, "flow", "ask_pilot_details", 0, None, None))
       ELSE IF typed[prompt].drone
       THEN SharedTurn(s, set_awaiting(ctx[s], "awaiting_drone_details", EmptyDict),
                       SessionReply(s, "flow", "ask_drone_details", 0, None, None))
       ELSE IF typed[prompt].mission
       THEN SharedTurn(s, set_awaiting(ctx[s], "awaiting_mission_details", EmptyDict),
                       SessionReply(s, "flow", "ask_mission_details", 0, None, None))
       ELSE SharedTurn(s, ctx[s],
                       SessionReply(s, "flow", "ask_create_type_again", 0, None, None))
    /\ UNCHANGED <<repo, edits, conflicts>>

\* add_pilot takes the next id from the frame of the run and appends to the
\* sheet as it is now
SharedPilotDetails(s, prompt) ==
    /\ Loaded(s)
    /\ SessionAwaiting(s, "awaiting_pilot_details")
    /\ LET parts == typed[prompt].parts
           pilot_data == [name |-> parts[1], location |-> parts[2], skills |-> parts[3],
                          available_from |-> parts[4], status |-> s_Available,
                          current_assignment |-> s_dash]
           r == add_pilot(pilot_data, recs[s].pilots_df, pilots, 0, None)
       IN IF Len(parts) >= 4
          THEN /\ pilots' = r.rows
               /\ SharedTurn(s, clear,
                             SessionReply(s, "flow",
                                          IF startswith(r.result, s_P) THEN "pilot_added"
                                          ELSE "pilot_add_failed",
                                          r.writes, r.result, None))
               /\ edits + r.writes <= MaxCreates
               /\ edits' = edits + r.writes
          ELSE /\ UNCHANGED <<pilots, edits>>
               /\ SharedTurn(s, clear,
                             SessionReply(s, "flow", "missing_information", 0, None, None))
    /\ UNCHANGED <<drones, missions, conflicts>>

InitShared ==
    /\ pilots = InitPilots
    /\ drones = InitDrones
    /\ missions = InitMissions
    /\ ctx = [s \in Sessions |-> clear]
    /\ last = [s \in Sessions |-> NoReply]
    /\ edits = 0
    /\ recs = [s \in Sessions |-> NotLoaded]
    /\ conflicts = NotRun

\* the steps of the two sessions interleave in any order
NextShared ==
    \/ \E s \in Sessions : SharedLoad(s)
    \/ \E s \in Sessions, prompt \in SharedPrompts : SharedCreate(s, prompt)
    \/ \E s \in Sessions, prompt \in SharedPrompts : SharedHelp(s, prompt)
    \/ \E s \in Sessions, prompt \in SharedPrompts : SharedCreateType(s, prompt)
    \/ \E s \in Sessions, prompt \in SharedPrompts : SharedPilotDetails(s, prompt)

SpecShared == InitShared /\ [][NextShared]_vars

\* C40: when both sessions have ended a pilot creation flow with a pilot
\* added, the two pilots have different ids
C40_IdsDifferAcrossSessions ==
    (last[1].response = "pilot_added" /\ last[2].response = "pilot_added") =>
        last[1].resource # last[2].resource

====
